---- MODULE Spec2Model ----
(***************************************************************************)
(* File-storage reconciliation layer of the study-materials server         *)
(* (server.js): the storage directory, the flat metadata index             *)
(* (fileMetadata, file-metadata.json) and the structured backup aggregate  *)
(* (fullBackupData, storage/sncop-backup.json), with the request handlers  *)
(* that mutate them and the start-up block that loads and reconciles them. *)
(*                                                                         *)
(* A JavaScript string is a sequence of one-character strings, so that     *)
(* trim, replace, toLowerCase, includes and template concatenation are     *)
(* computed character by character.  A path below STORAGE_DIR is the       *)
(* sequence of its segments.                                               *)
(***************************************************************************)
EXTENDS Integers, Sequences, FiniteSets, TLC

\* ------------------------------------------------------------------------
\* Strings
\* ------------------------------------------------------------------------

\* JavaScript undefined: a missing header, body field, route parameter or
\* object property.
Undefined == <<"undefined">>

SP == " "

IsWs(c) == c = SP

Upper == {"A", "B", "M", "T", "U", "X"}

LowerOf(c) ==
    CASE c = "A" -> "a"
      [] c = "B" -> "b"
      [] c = "M" -> "m"
      [] c = "T" -> "t"
      [] c = "U" -> "u"
      [] c = "X" -> "x"
      [] OTHER -> c

\* String.prototype.toLowerCase
ToLowerCase(s) == [i \in 1..Len(s) |-> LowerOf(s[i])]

\* String.prototype.trim
RECURSIVE TrimLeft(_)
TrimLeft(s) ==
    IF s # <<>> /\ IsWs(Head(s)) THEN TrimLeft(Tail(s)) ELSE s

RECURSIVE TrimRight(_)
TrimRight(s) ==
    IF s # <<>> /\ IsWs(s[Len(s)]) THEN TrimRight(SubSeq(s, 1, Len(s) - 1)) ELSE s

Trim(s) == TrimRight(TrimLeft(s))

\* s.replace(/\s+/g, c): every maximal run of whitespace becomes one c.
RECURSIVE ReplaceWs(_, _)
ReplaceWs(s, c) ==
    IF s = <<>> THEN <<>>
    ELSE IF IsWs(Head(s))
         THEN <<c>> \o ReplaceWs(TrimLeft(s), c)
         ELSE <<Head(s)>> \o ReplaceWs(Tail(s), c)

\* String.prototype.includes
Includes(s, pat) ==
    \E i \in 1..(Len(s) - Len(pat) + 1) : SubSeq(s, i, i + Len(pat) - 1) = pat

\* JavaScript truthiness of a value that is a string or undefined.
Truthy(v) == v # Undefined /\ v # <<>>

\* (v || '')
OrEmpty(v) == IF Truthy(v) THEN v ELSE <<>>

\* String(v) as a template literal renders it.
Render(v) ==
    IF v = Undefined THEN <<"u", "n", "d", "e", "f", "i", "n", "e", "d">> ELSE v

Notes == <<"n", "o", "t", "e", "s">>
PracticeTests == <<"p", "r", "a", "c", "t", "i", "c", "e", "-", "t", "e", "s", "t", "s">>
Practicals == <<"p", "r", "a", "c", "t", "i", "c", "a", "l", "s">>
Assignments == <<"a", "s", "s", "i", "g", "n", "m", "e", "n", "t", "s">>
Temp == <<"t", "e", "m", "p">>
Pdf == <<"p", "d", "f">>

\* ------------------------------------------------------------------------
\* Time
\* ------------------------------------------------------------------------

\* The clock counts milliseconds from an instant whose 13-digit epoch value
\* ends in 0; MaxClock caps it.
MaxClock == 1

Digit(n) ==
    CASE n = 0 -> "0" [] n = 1 -> "1" [] n = 2 -> "2" [] n = 3 -> "3"
      [] n = 4 -> "4" [] n = 5 -> "5" [] n = 6 -> "6" [] n = 7 -> "7"
      [] n = 8 -> "8" [] OTHER -> "9"

\* Date.now().toString(): thirteen digits.
NowDigits(now) ==
    <<"1", "7", "0", "0", "0", "0", "0", "0", "0", "0", "0", Digit(now \div 10),
      Digit(now % 10)>>

\* new Date().toISOString(): one rendering per millisecond.
IsoString(now) == NowDigits(now)

\* ------------------------------------------------------------------------
\* The two stores and their persisted documents
\* ------------------------------------------------------------------------

Null == <<"null">>

\* new Map()
EmptyMap == <<>>

MapSet(m, k, v) == [x \in (DOMAIN m) \cup {k} |-> IF x = k THEN v ELSE m[x]]

MapDelete(m, k) == [x \in (DOMAIN m) \ {k} |-> m[x]]

MapHas(m, k) == k \in DOMAIN m

\* The initial value of fullBackupData.
EmptyBackup ==
    [subjects |-> <<>>, notes |-> <<>>, practiceTests |-> <<>>,
     practicals |-> <<>>, assignments |-> <<>>, lastBackup |-> Null]

\* A persisted document: absent, unparsable, or holding a value.
AbsentDoc == [state |-> "absent", val |-> <<>>]
CorruptDoc == [state |-> "corrupt", val |-> <<>>]
Doc(v) == [state |-> "ok", val |-> v]

Dash == <<"-">>

\* `${subject}-${type}-${unit}-${filename}`
MetadataKey(subject, type, unit, filename) ==
    Render(subject) \o Dash \o Render(type) \o Dash \o Render(unit) \o Dash
        \o Render(filename)

\* The entry the start-up block synthesizes from a record.
EntryOf(rec) ==
    [title |-> rec.title, description |-> rec.description,
     originalFileName |-> rec.fileName]

\* The key the start-up block computes for a record of a list.
StartupKey(list, rec) ==
    IF list = "notes"
    THEN MetadataKey(rec.subject, Notes, rec.unit, rec.storedFileName)
    ELSE IF list = "practiceTests"
    THEN MetadataKey(rec.subject, PracticeTests, <<>>, rec.storedFileName)
    ELSE IF list = "practicals"
    THEN MetadataKey(rec.subject, Practicals, <<>>, rec.storedFileName)
    ELSE MetadataKey(rec.subject, Assignments, <<>>, rec.storedFileName)

\* A population that sets the entry of every record, present or not.
RECURSIVE PopulateFromOverwriting(_, _, _)
PopulateFromOverwriting(idx, list, recs) ==
    IF recs = <<>> THEN idx
    ELSE PopulateFromOverwriting(
             MapSet(idx, StartupKey(list, Head(recs)), EntryOf(Head(recs))),
             list, Tail(recs))

\* list.forEach(rec => { if (!fileMetadata.has(key)) fileMetadata.set(key, ...) })
RECURSIVE PopulateFrom(_, _, _)
PopulateFrom(idx, list, recs) ==
    IF recs = <<>> THEN idx
    ELSE LET k == StartupKey(list, Head(recs))
             next == IF MapHas(idx, k) THEN idx ELSE MapSet(idx, k, EntryOf(Head(recs)))
         IN  PopulateFrom(next, list, Tail(recs))

PopulateIndex(idx, agg) ==
    PopulateFrom(
        PopulateFrom(
            PopulateFrom(PopulateFrom(idx, "notes", agg.notes),
                         "practiceTests", agg.practiceTests),
            "practicals", agg.practicals),
        "assignments", agg.assignments)

\* Adding the values of a sequence to a JavaScript Set, which keeps first
\* insertion order and skips falsy values where the code tests them.
RECURSIVE AddAll(_, _)
AddAll(acc, vals) ==
    IF vals = <<>> THEN acc
    ELSE LET v == Head(vals)
         IN  AddAll(IF ~Truthy(v) \/ (\E i \in 1..Len(acc) : acc[i] = v)
                    THEN acc ELSE Append(acc, v),
                    Tail(vals))

FieldSeq(recs, f) == [i \in 1..Len(recs) |-> recs[i][f]]

AllSubjects(agg) ==
    AddAll(AddAll(AddAll(AddAll(<<>>, FieldSeq(agg.notes, "subject")),
                         FieldSeq(agg.practiceTests, "subject")),
                  FieldSeq(agg.practicals, "subject")),
           FieldSeq(agg.assignments, "subject"))

\* The units of every notes record, whatever its subject.
UnitsOfAnySubject(agg, subject) ==
    AddAll(<<>>, FieldSeq(agg.notes, "unit"))

\* notes.filter(note => note.subject === subject && note.unit), added to a Set
UnitsOf(agg, subject) ==
    AddAll(<<>>, FieldSeq(SelectSeq(agg.notes, LAMBDA n : n.subject = subject), "unit"))

\* The subject list the start-up block rebuilds; rnds[i] is the random suffix
\* drawn for the i-th subject's id.
ReconstructSubjects(agg, now, rnds) ==
    LET names == AllSubjects(agg)
    IN  [i \in 1..Len(names) |->
            [id |-> NowDigits(now) \o rnds[i], name |-> names[i],
             units |-> UnitsOf(agg, names[i])]]

\* What saveMetadata writes.  JSON.stringify drops a property holding
\* undefined and JSON.parse gives back an object without it; a property that
\* holds undefined and a property that is missing are both the value Undefined
\* here, so that the document read back is the value written.
SavedIndex(idx) == Doc(idx)

SavedBackup(agg, now) == Doc([agg EXCEPT !.lastBackup = IsoString(now)])

\* The try block that reads the two documents.
LoadThrows(di, db) ==
    \/ di.state = "corrupt"
    \/ db.state = "corrupt"

LoadIndex(di, db) ==
    IF LoadThrows(di, db) \/ di.state = "absent" THEN EmptyMap ELSE di.val

LoadBackup(di, db) ==
    IF LoadThrows(di, db) \/ db.state = "absent" THEN EmptyBackup
    ELSE IF "assignments" \notin DOMAIN db.val
         THEN [subjects |-> db.val.subjects, notes |-> db.val.notes,
               practiceTests |-> db.val.practiceTests,
               practicals |-> db.val.practicals, assignments |-> <<>>,
               lastBackup |-> db.val.lastBackup]
         ELSE db.val

\* A persist condition that looks at the growth of the index only.
StartupPersistsOnGrowth(initialSize, idx, agg) ==
    Cardinality(DOMAIN idx) > initialSize

\* if (fileMetadata.size > initialSize || fullBackupData.subjects.length > 0)
StartupPersists(initialSize, idx, agg) ==
    \/ Cardinality(DOMAIN idx) > initialSize
    \/ Len(agg.subjects) > 0

\* The whole start-up block: load, populate the index, rebuild the subjects,
\* persist.  The result holds the in-memory stores and the documents left.
StartupResult(di, db, now, rnds) ==
    LET idx0 == LoadIndex(di, db)
        agg0 == LoadBackup(di, db)
        idx1 == PopulateIndex(idx0, agg0)
        agg1 == IF Len(agg0.subjects) = 0
                THEN [agg0 EXCEPT !.subjects = ReconstructSubjects(agg0, now, rnds)]
                ELSE agg0
        save == StartupPersists(Cardinality(DOMAIN idx0), idx1, agg1)
    IN  [fileMetadata |-> idx1,
         fullBackupData |-> agg1,
         diskIndex |-> IF save THEN SavedIndex(idx1) ELSE di,
         diskBackup |-> IF save THEN SavedBackup(agg1, now) ELSE db]

\* ------------------------------------------------------------------------
\* Paths and the storage directory
\* ------------------------------------------------------------------------

\* path.join(STORAGE_DIR, ...segs): a path is the sequence of its non-empty
\* segments below STORAGE_DIR (no segment of the model holds "/" or is a dot
\* segment, so join does no other normalisation).
PathJoin(segs) == SelectSeq(segs, LAMBDA x : x # <<>>)

IsPrefix(p, q) == Len(p) <= Len(q) /\ SubSeq(q, 1, Len(p)) = p

Prefixes(p) == {SubSeq(p, 1, n) : n \in 1..Len(p)}

\* fs.existsSync
ExistsSync(fs, ds, p) == p \in fs \/ p \in ds

\* fs.ensureDirSync: the directory and its parents.
EnsureDir(ds, p) == ds \cup Prefixes(p)

\* fs.removeSync: the entry and everything below it.
RemoveFrom(set, p) == {q \in set : ~IsPrefix(p, q)}

\* req.file.path.includes('temp')
PathIncludes(p, pat) == \E i \in 1..Len(p) : Includes(p[i], pat)

\* path.extname: from the last "." of the name (none when the name has no
\* "." after its first character).
RECURSIVE LastDot(_, _)
LastDot(s, i) == IF i <= 1 THEN 0 ELSE IF s[i] = "." THEN i ELSE LastDot(s, i - 1)

ExtName(s) ==
    LET d == LastDot(s, Len(s)) IN IF d = 0 THEN <<>> ELSE SubSeq(s, d, Len(s))

\* path.basename(name, ext)
BaseName(s) == SubSeq(s, 1, Len(s) - Len(ExtName(s)))

SafeChars ==
    {"a", "b", "c", "d", "e", "f", "g", "h", "i", "j", "k", "l", "m", "n", "o", "p",
     "q", "r", "s", "t", "u", "v", "w", "x", "y", "z", "0", "1", "2", "3", "4", "5",
     "6", "7", "8", "9", "-", "_"} \cup Upper

\* name.replace(/[^a-zA-Z0-9\-_]/g, '_')
Sanitize(s) == [i \in 1..Len(s) |-> IF s[i] \in SafeChars THEN s[i] ELSE "_"]

\* multer filename: `${sanitizedName}_${timestamp}${ext}`
StoredName(originalname, now) ==
    Sanitize(BaseName(originalname)) \o <<"_">> \o NowDigits(now) \o ExtName(originalname)

\* /pdf|jpeg|jpg|png|gif/.test(s)
AllowedType(s) ==
    \/ Includes(s, Pdf)
    \/ Includes(s, <<"j", "p", "e", "g">>)
    \/ Includes(s, <<"j", "p", "g">>)
    \/ Includes(s, <<"p", "n", "g">>)
    \/ Includes(s, <<"g", "i", "f">>)

\* multer fileFilter
FileAccepted(file) ==
    AllowedType(file.mimetype) /\ AllowedType(ToLowerCase(ExtName(file.originalname)))

\* The directory multer's destination callback answers from the request
\* headers: [kind |-> "temp" | "dir" | "error", path].
UploadDestination(hdr) ==
    LET subject == Trim(OrEmpty(hdr.subject))
        type == Trim(OrEmpty(hdr.type))
        unit == Trim(OrEmpty(hdr.unit))
    IN  IF ~Truthy(subject) \/ ~Truthy(type)
        THEN [kind |-> "temp", path |-> <<Temp>>]
        ELSE IF type = Notes /\ Truthy(unit)
        THEN [kind |-> "dir", path |-> PathJoin(<<subject, Notes, unit>>)]
        ELSE IF type = PracticeTests
        THEN [kind |-> "dir", path |-> PathJoin(<<subject, PracticeTests>>)]
        ELSE IF type = Practicals
        THEN [kind |-> "dir", path |-> PathJoin(<<subject, Practicals>>)]
        ELSE IF type = Assignments
        THEN [kind |-> "dir", path |-> PathJoin(<<subject, Assignments>>)]
        ELSE [kind |-> "error", path |-> <<>>]

\* correctPath of the upload handler, from the request body; Undefined when
\* no branch assigns it.
UploadCorrectPath(body) ==
    IF body.type = Notes /\ Truthy(body.unit)
    THEN PathJoin(<<Trim(body.subject), Notes, Trim(body.unit)>>)
    ELSE IF body.type = PracticeTests
    THEN PathJoin(<<Trim(body.subject), PracticeTests>>)
    ELSE IF body.type = Practicals
    THEN PathJoin(<<Trim(body.subject), Practicals>>)
    ELSE IF body.type = Assignments
    THEN PathJoin(<<Trim(body.subject), Assignments>>)
    ELSE Undefined

\* filePath of GET /api/files/:subject/:type/:unit?/:filename
LookupPath(subject, type, unit, filename) ==
    IF type = Notes /\ Truthy(unit)
    THEN PathJoin(<<subject, Notes, unit, filename>>)
    ELSE IF type = PracticeTests
    THEN PathJoin(<<subject, PracticeTests, filename>>)
    ELSE IF type = Practicals
    THEN PathJoin(<<subject, Practicals, filename>>)
    ELSE IF type = Assignments
    THEN PathJoin(<<subject, Assignments, filename>>)
    ELSE PathJoin(<<subject, type, filename>>)

\* A derivation that never puts the unit in the path.
DeletePathGeneric(subject, type, unit, filename) ==
    PathJoin(<<subject, type, filename>>)

\* filePath of DELETE /api/files/:subject/:type/:unit?/:filename
DeletePath(subject, type, unit, filename) ==
    IF type = Notes /\ Truthy(unit)
    THEN PathJoin(<<subject, Notes, unit, filename>>)
    ELSE IF type = PracticeTests
    THEN PathJoin(<<subject, PracticeTests, filename>>)
    ELSE IF type = Practicals
    THEN PathJoin(<<subject, Practicals, filename>>)
    ELSE IF type = Assignments
    THEN PathJoin(<<subject, Assignments, filename>>)
    ELSE PathJoin(<<subject, type, filename>>)

\* filePath of POST /api/verify-files for one file; Undefined when no branch
\* assigns it.
VerifyPath(subject, type, unit, filename) ==
    IF type = Notes /\ Truthy(unit)
    THEN PathJoin(<<subject, Notes, unit, filename>>)
    ELSE IF type = PracticeTests
    THEN PathJoin(<<subject, PracticeTests, filename>>)
    ELSE IF type = Practicals
    THEN PathJoin(<<subject, Practicals, filename>>)
    ELSE IF type = Assignments
    THEN PathJoin(<<subject, Assignments, filename>>)
    ELSE Undefined

\* alternativePaths of the lookup handler, in order.
LookupAlternatives(subject, type, unit, filename) ==
    (IF type = Notes /\ Truthy(unit)
     THEN <<PathJoin(<<subject, Notes, ReplaceWs(unit, "_"), filename>>),
            PathJoin(<<subject, Notes, ReplaceWs(unit, "-"), filename>>),
            PathJoin(<<subject, Notes, ToLowerCase(unit), filename>>)>>
     ELSE IF type \in {PracticeTests, Practicals, Assignments}
     THEN <<PathJoin(<<ReplaceWs(subject, "_"), type, filename>>),
            PathJoin(<<ReplaceWs(subject, "-"), type, filename>>),
            PathJoin(<<ToLowerCase(subject), type, filename>>)>>
     ELSE <<>>)
    \o
    (IF type \notin {PracticeTests, Practicals, Assignments}
     THEN <<PathJoin(<<ReplaceWs(subject, "_"), type, filename>>),
            PathJoin(<<ReplaceWs(subject, "-"), type, filename>>)>>
     ELSE <<>>)

\* alternativePaths of the delete handler, in order.
DeleteAlternatives(subject, type, unit, filename) ==
    (IF type = Notes /\ Truthy(unit)
     THEN <<PathJoin(<<subject, Notes, ReplaceWs(unit, "_"), filename>>),
            PathJoin(<<subject, Notes, ReplaceWs(unit, "-"), filename>>),
            PathJoin(<<subject, Notes, ToLowerCase(unit), filename>>)>>
     ELSE <<>>)
    \o
    <<PathJoin(<<ReplaceWs(subject, "_"), type, filename>>),
      PathJoin(<<ReplaceWs(subject, "-"), type, filename>>)>>

\* The first path of a sequence that exists; Undefined when none does.
RECURSIVE FirstExisting(_, _, _)
FirstExisting(fs, ds, paths) ==
    IF paths = <<>> THEN Undefined
    ELSE IF ExistsSync(fs, ds, Head(paths)) THEN Head(paths)
    ELSE FirstExisting(fs, ds, Tail(paths))

\* ------------------------------------------------------------------------
\* State
\* ------------------------------------------------------------------------

VARIABLES
    files,           \* paths of the regular files below STORAGE_DIR
    dirs,            \* paths of the directories below STORAGE_DIR
    fileMetadata,    \* the in-memory flat index: key -> entry
    fullBackupData,  \* the in-memory backup aggregate
    diskIndex,       \* file-metadata.json
    diskBackup,      \* storage/sncop-backup.json
    clock,           \* milliseconds elapsed
    pc,              \* "boot": process not started; "serving": handling requests
    requests,        \* requests handled so far
    last,            \* the last step taken: operation, response status, branch
    hist,            \* end states of the start-ups run with no request between
    probe,           \* the last path derivation applied: tuple, handler, path
    disk,            \* which writes of saveMetadata succeed: "ok", "index-only",
                     \* "failing"; "crash": the process dies after the first
    inflight,        \* uploads whose file multer has stored and whose handler
                     \* has not run yet
    users,           \* the identity provider's users: id -> email, confirmed,
                     \* password
    mails,           \* the mails handed to the mailer
    reply            \* the answer to the last account request, with the calls
                     \* to the identity provider made for it

vars ==
    <<files, dirs, fileMetadata, fullBackupData, diskIndex, diskBackup, clock, pc,
      requests, last, hist, probe, disk, inflight, users, mails, reply>>

storeVars ==
    <<files, dirs, fileMetadata, fullBackupData, diskIndex, diskBackup, clock, pc,
      requests, last, hist, probe, disk, inflight>>

authVars == <<users, mails, reply>>

\* No account request has been made and the identity provider is not looked at.
AuthIdle ==
    /\ users = <<>>
    /\ mails = {}
    /\ reply = [op |-> "none"]

\* The response status of a request that was never answered.
NoResponse == 0

\* No path derivation applied yet.
NoProbe == [tuple |-> <<>>, by |-> "none", path |-> <<>>]

Step(op, status, note) == [op |-> op, status |-> status, note |-> note]

\* The documents saveMetadata leaves: writeFileSync of file-metadata.json,
\* then of sncop-backup.json; the first write that throws ends the function,
\* and the catch logs the error.
WrittenIndex(idx) == IF disk = "failing" THEN diskIndex ELSE SavedIndex(idx)

\* A saveMetadata that writes the index document only.
WrittenBackupNever(agg, now) == diskBackup

WrittenBackup(agg, now) == IF disk = "ok" THEN SavedBackup(agg, now) ELSE diskBackup

\* saveMetadata without its catch: a failed write reaches the handler.
SaveThrowsUncaught(d) == d # "ok"

\* Whether saveMetadata throws to the handler when the disk is in state d:
\* never, the catch around both writes logs the error and returns.
SaveThrows(d) == FALSE

\* The status a handler answers after saveMetadata(): its own catch answers
\* 500 for whatever is thrown inside its try.
Responded(d, status) == IF SaveThrows(d) THEN 500 ELSE status

\* What is left of a value of the running process after saveMetadata when
\* the process is killed between its two writes (disk = "crash"): the value of
\* a process not started.
Surviving(v, boot) == IF disk = "crash" THEN boot ELSE v

\* ------------------------------------------------------------------------
\* Process start and stop
\* ------------------------------------------------------------------------

Rands == {<<"k">>, <<"q">>}

Snapshot(r, note) ==
    [fileMetadata |-> r.fileMetadata, fullBackupData |-> r.fullBackupData,
     diskIndex |-> r.diskIndex, diskBackup |-> r.diskBackup, note |-> note]

\* Start-ups of the process followed in a row.
MaxStarts == 2

\* The module-level code from the declarations of the stores to the persist
\* at the end of the reconcile block, run at time now.
Startup(now, rnds) ==
    LET r == StartupResult(diskIndex, diskBackup, now, rnds)
        rebuilt == Len(LoadBackup(diskIndex, diskBackup).subjects) = 0
                   /\ Len(r.fullBackupData.subjects) > 0
        note == IF rebuilt THEN "rebuilt"
                ELSE IF r.fileMetadata # LoadIndex(diskIndex, diskBackup)
                THEN "populated" ELSE "loaded"
    IN  /\ pc = "boot"
        /\ Len(hist) < MaxStarts
        /\ pc' = "serving"
        /\ clock' = now
        /\ fileMetadata' = r.fileMetadata
        /\ fullBackupData' = r.fullBackupData
        /\ diskIndex' = r.diskIndex
        /\ diskBackup' = r.diskBackup
        /\ last' = Step("startup", NoResponse, note)
        /\ hist' = Append(hist, Snapshot(r, note))
        /\ inflight' = {}
        /\ UNCHANGED authVars
        /\ UNCHANGED <<files, dirs, requests, probe, disk>>

\* The process stops between two requests; the stores in memory are gone,
\* the storage directory and the documents stay.
Exit ==
    /\ pc = "serving"
    /\ Len(hist) < MaxStarts
    /\ pc' = "boot"
    /\ fileMetadata' = EmptyMap
    /\ fullBackupData' = EmptyBackup
    /\ last' = Step("exit", NoResponse, "")
    /\ inflight' = inflight
    /\ UNCHANGED authVars
    /\ UNCHANGED <<files, dirs, diskIndex, diskBackup, clock, requests, hist, probe,
                   disk>>

\* ------------------------------------------------------------------------
\* POST /api/upload
\* ------------------------------------------------------------------------

NoFile == [originalname |-> Undefined, mimetype |-> Undefined]

\* list.filter(r => !(r.storedFileName === filename && r.subject === subject
\*                    [&& r.unit === unit]))
WithoutIdentity(recs, byUnit, filename, subject, unit) ==
    SelectSeq(recs, LAMBDA r :
        ~(r.storedFileName = filename /\ r.subject = subject
          /\ (byUnit => r.unit = unit)))

\* The record list an upload of this (trimmed) type is pushed to; "" when
\* no branch matches.
ListOfType(type) ==
    IF type = Notes THEN "notes"
    ELSE IF type = PracticeTests THEN "practiceTests"
    ELSE IF type = Practicals THEN "practicals"
    ELSE IF type = Assignments THEN "assignments"
    ELSE ""

\* Mutant: the record is pushed without the filter that removes its identity.
UpsertRecordNoFilter(agg, type, rec) ==
    LET list == ListOfType(type)
    IN  IF list = "" THEN agg ELSE [agg EXCEPT ![list] = Append(@, rec)]

\* The upsert of backupFileData into the list of its category.
UpsertRecord(agg, type, rec) ==
    LET list == ListOfType(type)
    IN  IF list = "" THEN agg
        ELSE [agg EXCEPT ![list] =
                 Append(WithoutIdentity(@, list = "notes", rec.storedFileName,
                                        rec.subject, rec.unit), rec)]

IndexOfSubject(subjects, name) ==
    IF \E i \in 1..Len(subjects) : subjects[i].name = name
    THEN CHOOSE i \in 1..Len(subjects) :
             /\ subjects[i].name = name
             /\ \A j \in 1..(i - 1) : subjects[j].name # name
    ELSE 0

SeqIncludes(seq, v) == \E i \in 1..Len(seq) : seq[i] = v

\* Subject registration at the end of the upload handler.
RegisterSubject(subjects, body, now) ==
    LET name == Trim(body.subject)
        i == IndexOfSubject(subjects, name)
        notesUnit == body.type = Notes /\ Truthy(body.unit)
    IN  IF i = 0
        THEN Append(subjects,
                    [id |-> NowDigits(now), name |-> name,
                     units |-> IF notesUnit THEN <<Trim(body.unit)>> ELSE <<>>])
        ELSE IF notesUnit /\ ~SeqIncludes(subjects[i].units, Trim(body.unit))
        THEN [subjects EXCEPT ![i].units = Append(@, Trim(body.unit))]
        ELSE subjects

\* The validation of the body; 0 when it passes.
UploadRejection(body) ==
    IF ~Truthy(body.title) \/ ~Truthy(Trim(body.title)) THEN 400
    ELSE IF ~Truthy(body.subject) \/ ~Truthy(Trim(body.subject)) THEN 400
    ELSE IF ~Truthy(body.type) \/ ~Truthy(Trim(body.type)) THEN 400
    ELSE IF body.type = Notes /\ (~Truthy(body.unit) \/ ~Truthy(Trim(body.unit)))
    THEN 400
    ELSE 0

\* metadataKey of the upload handler.
UploadKey(body, filename) ==
    MetadataKey(Trim(body.subject), Trim(body.type), Trim(OrEmpty(body.unit)), filename)

\* backupFileData, with unit set only for notes.
UploadRecord(body, file, filename, path, now) ==
    [id |-> NowDigits(now),
     title |-> Trim(body.title),
     description |-> Trim(OrEmpty(body.description)),
     fileName |-> file.originalname,
     storedFileName |-> filename,
     subject |-> Trim(body.subject),
     type |-> IF Includes(ToLowerCase(ExtName(file.originalname)), Pdf)
              THEN Pdf ELSE <<"i", "m", "a", "g", "e">>,
     filePath |-> path,
     unit |-> IF Trim(body.type) = Notes THEN Trim(OrEmpty(body.unit)) ELSE Undefined]

\* Whether the handler's move of the stored file names the file's own path
\* as the destination.
MovesOntoItself(req, now) ==
    LET dest == UploadDestination(req.hdr)
        path0 == Append(dest.path, StoredName(req.file.originalname, now))
        correct == UploadCorrectPath(req.body)
    IN  /\ req.file # NoFile
        /\ dest.kind # "error"
        /\ PathIncludes(path0, Temp)
        /\ correct # Undefined
        /\ Append(correct, StoredName(req.file.originalname, now)) = path0

\* The whole request, handled within the clock reading now: multer's
\* fileFilter, destination and filename, then the handler.  sameThrows is
\* what moveSync does when source and destination are the same path.
Upload(req, now, sameThrows) ==
    LET file == req.file
        body == req.body
        dest == UploadDestination(req.hdr)
        filename == StoredName(file.originalname, now)
        path0 == Append(dest.path, filename)
        stored == file # NoFile /\ FileAccepted(file) /\ dest.kind # "error"
        files1 == IF stored THEN files \cup {path0} ELSE files
        dirs1 == IF stored THEN EnsureDir(dirs, dest.path) ELSE dirs
        reject == UploadRejection(body)
        inTemp == PathIncludes(path0, Temp)
        correct == IF inTemp THEN UploadCorrectPath(body) ELSE Undefined
        newPath == IF correct = Undefined THEN path0 ELSE Append(correct, filename)
        dirs2 == IF correct = Undefined THEN dirs1 ELSE EnsureDir(dirs1, correct)
        moveThrows == /\ correct # Undefined
                      /\ IF newPath = path0 THEN sameThrows ELSE newPath \in files1
        files2 == (files1 \ {path0}) \cup {newPath}
        key == UploadKey(body, filename)
        rec == UploadRecord(body, file, filename, newPath, now)
        idx == MapSet(fileMetadata,
                      key,
                      [title |-> rec.title, description |-> rec.description,
                       originalFileName |-> file.originalname])
        agg1 == UpsertRecord(fullBackupData, Trim(body.type), rec)
        agg2 == [agg1 EXCEPT !.subjects = RegisterSubject(@, body, now)]
        replaced == \E l \in {"notes", "practiceTests", "practicals", "assignments"} :
                        Len(agg1[l]) = Len(fullBackupData[l])
                        /\ ListOfType(Trim(body.type)) = l
        saves == stored /\ reject = 0 /\ ~moveThrows
    IN  /\ pc = "serving"
        /\ pc' = IF saves THEN Surviving(pc, "boot") ELSE pc
        /\ requests' = requests + 1
        /\ inflight' = inflight
        /\ UNCHANGED authVars
        /\ hist' = <<>>
        /\ probe' = probe
        /\ disk' = IF saves THEN Surviving(disk, "ok") ELSE disk
        /\ clock' = now
        /\ IF file = NoFile
           THEN /\ last' = Step("upload", 400, "no file")
                /\ UNCHANGED <<files, dirs, fileMetadata, fullBackupData, diskIndex,
                               diskBackup>>
           ELSE IF ~stored
           THEN /\ last' = Step("upload", NoResponse, "store error")
                /\ UNCHANGED <<files, dirs, fileMetadata, fullBackupData, diskIndex,
                               diskBackup>>
           ELSE IF reject # 0
           THEN /\ last' = Step("upload", reject, "rejected")
                /\ files' = files1
                /\ dirs' = dirs1
                /\ UNCHANGED <<fileMetadata, fullBackupData, diskIndex, diskBackup>>
           ELSE IF moveThrows
           THEN /\ last' = Step("upload", 500, "move failed")
                /\ files' = files1
                /\ dirs' = dirs2
                /\ UNCHANGED <<fileMetadata, fullBackupData, diskIndex, diskBackup>>
           ELSE /\ last' = Surviving(Step("upload", Responded(disk, 200),
                                          IF replaced THEN "replaced" ELSE "added"),
                                     Step("crash", NoResponse, "upload"))
                /\ files' = files2
                /\ dirs' = dirs2
                /\ fileMetadata' = Surviving(idx, EmptyMap)
                /\ fullBackupData' = Surviving(agg2, EmptyBackup)
                /\ diskIndex' = WrittenIndex(idx)
                /\ diskBackup' = WrittenBackup(agg2, now)

\* ------------------------------------------------------------------------
\* GET and DELETE /api/files/:subject/:type/:unit?/:filename
\* ------------------------------------------------------------------------

\* The status the lookup handler answers: the canonical path, else the first
\* existing alternative, is sent; sending a directory fails.
LookupServed(fs, ds, q) ==
    LET filePath == LookupPath(q.subject, q.type, q.unit, q.filename)
    IN  IF ExistsSync(fs, ds, filePath) THEN filePath
        ELSE FirstExisting(fs, ds,
                           LookupAlternatives(q.subject, q.type, q.unit, q.filename))

LookupStatus(fs, ds, q) ==
    LET served == LookupServed(fs, ds, q)
    IN  IF served = Undefined THEN 404
        ELSE IF served \in fs THEN 200
        ELSE 500

Lookup(q) ==
    /\ pc = "serving"
    /\ last' = Step("lookup", LookupStatus(files, dirs, q),
                    IF LookupServed(files, dirs, q) = Undefined THEN ""
                    ELSE IF LookupServed(files, dirs, q)
                                = LookupPath(q.subject, q.type, q.unit, q.filename)
                    THEN "canonical" ELSE "fallback")
    /\ requests' = requests + 1
    /\ inflight' = inflight
    /\ UNCHANGED authVars
    /\ UNCHANGED <<files, dirs, fileMetadata, fullBackupData, diskIndex, diskBackup,
                   clock, pc, hist, probe, disk>>

\* metadataKey of the delete handler.
DeleteKey(q) == MetadataKey(q.subject, q.type, OrEmpty(q.unit), q.filename)

\* The record lists after the delete handler's filter.
DeleteRecord(agg, q) ==
    LET list == ListOfType(q.type)
    IN  IF list = "" THEN agg
        ELSE [agg EXCEPT ![list] =
                 WithoutIdentity(@, list = "notes", q.filename, q.subject,
                                 OrEmpty(q.unit))]

\* The path the delete handler removes: the canonical path, else the first
\* existing alternative; Undefined when none exists.
DeleteTarget(fs, ds, q) ==
    LET filePath == DeletePath(q.subject, q.type, q.unit, q.filename)
    IN  IF ExistsSync(fs, ds, filePath) THEN filePath
        ELSE FirstExisting(fs, ds,
                           DeleteAlternatives(q.subject, q.type, q.unit, q.filename))

Delete(q, now) ==
    LET target == DeleteTarget(files, dirs, q)
        idx == MapDelete(fileMetadata, DeleteKey(q))
        agg == DeleteRecord(fullBackupData, q)
    IN  /\ pc = "serving"
        /\ pc' = IF target = Undefined THEN pc ELSE Surviving(pc, "boot")
        /\ requests' = requests + 1
        /\ inflight' = inflight
        /\ UNCHANGED authVars
        /\ hist' = <<>>
        /\ probe' = probe
        /\ disk' = IF target = Undefined THEN disk ELSE Surviving(disk, "ok")
        /\ clock' = now
        /\ IF target = Undefined
           THEN /\ last' = Step("delete", 404, "")
                /\ UNCHANGED <<files, dirs, fileMetadata, fullBackupData, diskIndex,
                               diskBackup>>
           ELSE /\ last' = Surviving(
                               Step("delete", Responded(disk, 200),
                                    IF target = DeletePath(q.subject, q.type, q.unit,
                                                           q.filename)
                                    THEN IF target \in dirs THEN "directory"
                                         ELSE "canonical"
                                    ELSE "fallback"),
                               Step("crash", NoResponse, "delete"))
                /\ files' = RemoveFrom(files, target)
                /\ dirs' = RemoveFrom(dirs, target)
                /\ fileMetadata' = Surviving(idx, EmptyMap)
                /\ fullBackupData' = Surviving(agg, EmptyBackup)
                /\ diskIndex' = WrittenIndex(idx)
                /\ diskBackup' = WrittenBackup(agg, now)

\* ------------------------------------------------------------------------
\* Subjects: POST /api/subjects, POST /api/subjects/:subjectName/units,
\* DELETE /api/subjects/:subjectName
\* ------------------------------------------------------------------------

\* createSubjectStructure: the subject directory, its notes directory with
\* one directory for each unit, and the three other category directories.
CreateSubjectStructure(ds, subjectName, units) ==
    ds \cup Prefixes(<<subjectName, Notes>>)
       \cup {<<subjectName, Notes, units[i]>> : i \in 1..Len(units)}
       \cup {<<subjectName, PracticeTests>>, <<subjectName, Practicals>>,
             <<subjectName, Assignments>>}

\* The subject list after POST /api/subjects: the entry of that name is
\* replaced where it stands, or the new entry is appended.
PutSubject(subjects, subjectData) ==
    LET i == IndexOfSubject(subjects, subjectData.name)
    IN  IF i > 0 THEN [subjects EXCEPT ![i] = subjectData]
        ELSE Append(subjects, subjectData)

\* POST /api/subjects with body {name, units}; units may be absent.
CreateSubject(name, units, now) ==
    LET given == IF units = Undefined THEN <<>> ELSE units
        subjectData == [id |-> NowDigits(now), name |-> name, units |-> given]
        agg == [fullBackupData EXCEPT !.subjects = PutSubject(@, subjectData)]
    IN  /\ pc = "serving"
        /\ requests' = requests + 1
        /\ inflight' = inflight
        /\ UNCHANGED authVars
        /\ clock' = now
        /\ hist' = <<>>
        /\ dirs' = CreateSubjectStructure(dirs, name, given)
        /\ fullBackupData' = Surviving(agg, EmptyBackup)
        /\ fileMetadata' = Surviving(fileMetadata, EmptyMap)
        /\ diskIndex' = WrittenIndex(fileMetadata)
        /\ diskBackup' = WrittenBackup(agg, now)
        /\ last' = Surviving(Step("create-subject", Responded(disk, 200), ""),
                             Step("crash", NoResponse, "create-subject"))
        /\ pc' = Surviving(pc, "boot")
        /\ disk' = Surviving(disk, "ok")
        /\ UNCHANGED <<files, probe>>

\* POST /api/subjects/:subjectName/units with body {unitName}.
AddUnit(subjectName, unitName, now) ==
    LET i == IndexOfSubject(fullBackupData.subjects, subjectName)
        added == i > 0 /\ ~SeqIncludes(fullBackupData.subjects[i].units, unitName)
        agg == IF added
               THEN [fullBackupData EXCEPT !.subjects[i].units = Append(@, unitName)]
               ELSE fullBackupData
    IN  /\ pc = "serving"
        /\ requests' = requests + 1
        /\ inflight' = inflight
        /\ UNCHANGED authVars
        /\ clock' = now
        /\ hist' = <<>>
        /\ dirs' = EnsureDir(dirs, <<subjectName, Notes, unitName>>)
        /\ fullBackupData' = IF added THEN Surviving(agg, EmptyBackup) ELSE agg
        /\ fileMetadata' = IF added THEN Surviving(fileMetadata, EmptyMap)
                           ELSE fileMetadata
        /\ diskIndex' = IF added THEN WrittenIndex(fileMetadata) ELSE diskIndex
        /\ diskBackup' = IF added THEN WrittenBackup(agg, now) ELSE diskBackup
        /\ last' = IF added
                   THEN Surviving(Step("add-unit", Responded(disk, 200), "added"),
                                  Step("crash", NoResponse, "add-unit"))
                   ELSE Step("add-unit", 200, "")
        /\ pc' = IF added THEN Surviving(pc, "boot") ELSE pc
        /\ disk' = IF added THEN Surviving(disk, "ok") ELSE disk
        /\ UNCHANGED <<files, probe>>

\* list.filter(r => r.subject !== subjectName)
OfOtherSubjects(recs, field, subjectName) ==
    SelectSeq(recs, LAMBDA r : r[field] # subjectName)

\* DELETE /api/subjects/:subjectName
DeleteSubject(subjectName, now) ==
    LET agg == [subjects |-> OfOtherSubjects(fullBackupData.subjects, "name", subjectName),
                notes |-> OfOtherSubjects(fullBackupData.notes, "subject", subjectName),
                practiceTests |->
                    OfOtherSubjects(fullBackupData.practiceTests, "subject", subjectName),
                practicals |->
                    OfOtherSubjects(fullBackupData.practicals, "subject", subjectName),
                assignments |->
                    OfOtherSubjects(fullBackupData.assignments, "subject", subjectName),
                lastBackup |-> fullBackupData.lastBackup]
    IN  /\ pc = "serving"
        /\ requests' = requests + 1
        /\ inflight' = inflight
        /\ UNCHANGED authVars
        /\ clock' = now
        /\ hist' = <<>>
        /\ probe' = probe
        /\ IF ~Truthy(subjectName) \/ ToLowerCase(subjectName) = Temp
           THEN /\ last' = Step("delete-subject", 400, "")
                /\ UNCHANGED <<files, dirs, fileMetadata, fullBackupData, diskIndex,
                               diskBackup, pc, disk>>
           ELSE /\ files' = RemoveFrom(files, <<subjectName>>)
                /\ dirs' = RemoveFrom(dirs, <<subjectName>>)
                /\ fullBackupData' = Surviving(agg, EmptyBackup)
                /\ fileMetadata' = Surviving(fileMetadata, EmptyMap)
                /\ diskIndex' = WrittenIndex(fileMetadata)
                /\ diskBackup' = WrittenBackup(agg, now)
                /\ last' = Surviving(Step("delete-subject", Responded(disk, 200), ""),
                                     Step("crash", NoResponse, "delete-subject"))
                /\ pc' = Surviving(pc, "boot")
                /\ disk' = Surviving(disk, "ok")

\* ------------------------------------------------------------------------
\* Listing
\* ------------------------------------------------------------------------

LowerLetters ==
    <<"a", "b", "c", "d", "e", "f", "g", "h", "i", "j", "k", "l", "m",
      "n", "o", "p", "q", "r", "s", "t", "u", "v", "w", "x", "y", "z">>

UpperLetters ==
    <<"A", "B", "C", "D", "E", "F", "G", "H", "I", "J", "K", "L", "M",
      "N", "O", "P", "Q", "R", "S", "T", "U", "V", "W", "X", "Y", "Z">>

Digits == {"0", "1", "2", "3", "4", "5", "6", "7", "8", "9"}

\* l.toUpperCase() of one character
UpperOf(c) ==
    IF \E i \in 1..26 : LowerLetters[i] = c
    THEN UpperLetters[CHOOSE i \in 1..26 : LowerLetters[i] = c]
    ELSE c

\* \w
IsWordChar(c) ==
    \/ \E i \in 1..26 : LowerLetters[i] = c \/ UpperLetters[i] = c
    \/ c \in Digits
    \/ c = "_"

RECURSIVE LastDotAt(_, _)
LastDotAt(s, i) == IF i < 1 THEN 0 ELSE IF s[i] = "." THEN i ELSE LastDotAt(s, i - 1)

\* filename.replace(/\.[^/.]+$/, ""): without the last "." and what follows
\* it, when something follows it.
StripExtension(s) ==
    LET d == LastDotAt(s, Len(s))
    IN  IF d = 0 \/ d = Len(s) THEN s ELSE SubSeq(s, 1, d - 1)

\* baseTitle.replace(/_\d{13}$/, "")
StripTimestamp(s) ==
    IF /\ Len(s) >= 14
       /\ s[Len(s) - 13] = "_"
       /\ \A i \in (Len(s) - 12)..Len(s) : s[i] \in Digits
    THEN SubSeq(s, 1, Len(s) - 14)
    ELSE s

\* baseTitle.replace(/_/g, " ")
UnderscoresToSpaces(s) == [i \in 1..Len(s) |-> IF s[i] = "_" THEN SP ELSE s[i]]

\* baseTitle.replace(/\b\w/g, l => l.toUpperCase()): the first character of
\* every run of word characters in upper case.
Capitalize(s) ==
    [i \in 1..Len(s) |->
        IF IsWordChar(s[i]) /\ (i = 1 \/ ~IsWordChar(s[i - 1]))
        THEN UpperOf(s[i]) ELSE s[i]]

\* baseTitle of getSubjectFiles
BaseTitle(filename) ==
    Capitalize(UnderscoresToSpaces(StripTimestamp(StripExtension(filename))))

\* The category directories of getSubjectFiles other than notes.
FlatCategories == {PracticeTests, Practicals, Assignments}

\* One item of getSubjectFiles for the file of a category directory; unit is
\* the unit directory for notes, and no property for the other categories.
\* Notes and assignments take any truthy title of the index entry, practice
\* tests and practicals one that is not blank.  The size and the
\* modification date of the file are not part of the model.
ListedItem(idx, subjectName, category, unit, filename) ==
    LET metadataKey == MetadataKey(subjectName, category,
                                   IF category = Notes THEN unit ELSE <<>>, filename)
        has == MapHas(idx, metadataKey)
        titled == /\ has
                  /\ Truthy(idx[metadataKey].title)
                  /\ category \in {PracticeTests, Practicals}
                         => Trim(idx[metadataKey].title) # <<>>
    IN  [filename |-> filename,
         title |-> IF titled THEN idx[metadataKey].title ELSE BaseTitle(filename),
         description |-> IF has THEN OrEmpty(idx[metadataKey].description) ELSE <<>>,
         type |-> IF Includes(ToLowerCase(ExtName(filename)), Pdf)
                  THEN Pdf ELSE <<"i", "m", "a", "g", "e">>,
         subject |-> subjectName,
         unit |-> IF category = Notes THEN unit ELSE Undefined]

\* getSubjectFiles(subjectPath, subjectName): the items of every unit
\* directory below notes, and of the three other category directories.  A
\* list is the set of its items: readdirSync's order is the file system's.
GetSubjectFiles(fs, ds, idx, subjectPath, subjectName) ==
    LET units == {d[Len(d)] : d \in {d \in ds : /\ Len(d) = Len(subjectPath) + 2
                                                /\ IsPrefix(subjectPath \o <<Notes>>, d)}}
        names(dir) == {f[Len(f)] : f \in {f \in fs : /\ Len(f) = Len(dir) + 1
                                                      /\ IsPrefix(dir, f)}}
    IN  [notes |-> [unit \in units |->
                       {ListedItem(idx, subjectName, Notes, unit, filename) :
                           filename \in names(subjectPath \o <<Notes, unit>>)}],
         flat |-> [category \in FlatCategories |->
                       {ListedItem(idx, subjectName, category, Undefined, filename) :
                           filename \in names(subjectPath \o <<category>>)}]]

\* The view of a subject the storage-sync handler builds from the records of
\* the aggregate.
BackupItem(rec, withUnit) ==
    [filename |-> rec.storedFileName,
     title |-> rec.title,
     description |-> rec.description,
     type |-> rec.type,
     subject |-> rec.subject,
     unit |-> IF withUnit THEN rec.unit ELSE Undefined]

BackupView(agg, name) ==
    LET of(list) == {agg[list][i] : i \in {i \in 1..Len(agg[list]) :
                                              agg[list][i].subject = name}}
    IN  [notes |-> [unit \in {rec.unit : rec \in of("notes")} |->
                       {BackupItem(rec, TRUE) : rec \in {r \in of("notes") : r.unit = unit}}],
         flat |-> [category \in FlatCategories |->
                       {BackupItem(rec, FALSE) : rec \in of(ListOfType(category))}]]

\* The subject directories the handler scans: the one of the route parameter
\* when it exists, every directory of the storage directory but temp when the
\* route has no parameter.
ScannedSubjects(fs, ds, subject) ==
    IF Truthy(subject)
    THEN IF ExistsSync(fs, ds, <<subject>>) THEN {subject} ELSE {}
    ELSE {d[1] : d \in {d \in ds : Len(d) = 1 /\ ToLowerCase(d[1]) # Temp}}

\* Whether the handler builds storageStructure from the aggregate: only when
\* the scan found no subject directory and the aggregate has subjects.
FromBackup(fs, ds, agg, subject) ==
    ScannedSubjects(fs, ds, subject) = {} /\ Len(agg.subjects) > 0

\* storageStructure of the response.
StorageStructure(fs, ds, idx, agg, subject) ==
    IF FromBackup(fs, ds, agg, subject)
    THEN [name \in {agg.subjects[i].name : i \in {i \in 1..Len(agg.subjects) :
                        ToLowerCase(agg.subjects[i].name) # Temp}} |->
             BackupView(agg, name)]
    ELSE [name \in ScannedSubjects(fs, ds, subject) |->
             GetSubjectFiles(fs, ds, idx, <<name>>, name)]

\* GET /api/storage-sync/:subject?
StorageSync(subject) ==
    /\ pc = "serving"
    /\ last' = Step("storage-sync", 200,
                    IF FromBackup(files, dirs, fullBackupData, subject)
                    THEN "backup" ELSE "scan")
    /\ requests' = requests + 1
    /\ inflight' = inflight
    /\ UNCHANGED authVars
    /\ UNCHANGED <<files, dirs, fileMetadata, fullBackupData, diskIndex, diskBackup,
                   clock, pc, hist, probe, disk>>

\* ------------------------------------------------------------------------
\* Requests of the model
\* ------------------------------------------------------------------------

\* Requests handled in one run of the model.
MaxRequests == 2

SubjM == <<"M">>
UnitAB == <<"A", SP, "B">>
UnitA_B == <<"A", "_", "B">>
TypeX == <<"X">>
TitleT == <<"T">>
TitleX == <<"X">>
MimePdf == <<"a", "p", "p", "l", "i", "c", "a", "t", "i", "o", "n", "/", "p", "d", "f">>
FilePdf == [originalname |-> <<"a", ".", "p", "d", "f">>, mimetype |-> MimePdf]

Body(title, subject, type, unit) ==
    [title |-> title, subject |-> subject, type |-> type, unit |-> unit,
     description |-> Undefined]

NoHeaders == [subject |-> Undefined, type |-> Undefined, unit |-> Undefined]

\* An upload sends its parameters in the body, and in the x-subject, x-type
\* and x-unit headers as well or not at all.
HeadersFor(body) ==
    {NoHeaders, [subject |-> body.subject, type |-> body.type, unit |-> body.unit]}

RequestsOf(bodies, uploadFiles) ==
    UNION {{[hdr |-> h, body |-> b, file |-> f] : h \in HeadersFor(b), f \in uploadFiles} :
              b \in bodies}

\* Notes under either unit or none, practice tests with and without a unit,
\* and a category outside the four.
Bodies ==
    {Body(t, SubjM, Notes, u) : t \in {TitleT, TitleX}, u \in {UnitAB, UnitA_B}}
    \cup {Body(t, SubjM, PracticeTests, u) : t \in {TitleT}, u \in {Undefined, UnitAB}}
    \cup {Body(TitleT, SubjM, Notes, Undefined), Body(TitleT, SubjM, TypeX, Undefined)}

UploadRequests == RequestsOf(Bodies, {FilePdf})

\* The names a file request may give: those of the stored files and that of
\* a unit directory.
StoredNames == {p[Len(p)] : p \in files} \cup {UnitAB}

FileQueries ==
    [subject : {SubjM}, type : {Notes, PracticeTests, TypeX},
     unit : {Undefined, UnitAB, UnitA_B}, filename : StoredNames]

\* ------------------------------------------------------------------------
\* Start-up over stored documents
\* ------------------------------------------------------------------------

\* Notes records in a stored backup document.
MaxStoredNotes == 2

SubjB == <<"B">>

StoredRecord(subject, category, unit, now, title) ==
    [id |-> NowDigits(now),
     title |-> title,
     description |-> <<>>,
     fileName |-> FilePdf.originalname,
     storedFileName |-> StoredName(FilePdf.originalname, now),
     subject |-> subject,
     type |-> Pdf,
     filePath |-> PathJoin(<<subject, category, OrEmpty(unit),
                             StoredName(FilePdf.originalname, now)>>),
     unit |-> unit]

StoredNotes ==
    {StoredRecord(SubjM, Notes, UnitAB, 0, TitleT),
     StoredRecord(SubjM, Notes, UnitA_B, 0, TitleT),
     StoredRecord(SubjM, Notes, UnitAB, 1, TitleT),
     StoredRecord(SubjB, Notes, UnitAB, 0, TitleT)}

\* The sequences without repetition of at most n elements of a set.
InjectiveSeqs(set, n) ==
    {sq \in UNION {[1..k -> set] : k \in 0..n} :
        \A i, j \in 1..Len(sq) : sq[i] = sq[j] => i = j}

\* A record stored without a description.
TestB ==
    [StoredRecord(SubjB, PracticeTests, Undefined, 0, TitleT)
        EXCEPT !.description = Undefined]
PracticalM == StoredRecord(SubjM, Practicals, Undefined, 0, TitleT)
AssignmentB == StoredRecord(SubjB, Assignments, Undefined, 1, TitleT)

\* The other three lists of a stored backup document.
StoredOthers ==
    {[practiceTests |-> <<>>, practicals |-> <<>>, assignments |-> <<>>],
     [practiceTests |-> <<TestB>>, practicals |-> <<>>, assignments |-> <<>>],
     [practiceTests |-> <<TestB>>, practicals |-> <<PracticalM>>,
      assignments |-> <<AssignmentB>>]}

StoredSubjects ==
    {<<>>, <<[id |-> <<"s", "1">>, name |-> SubjM, units |-> <<UnitAB>>]>>}

\* A document written before assignments existed has no assignments property.
StoredBackups ==
    {[subjects |-> sj, notes |-> ns, practiceTests |-> o.practiceTests,
      practicals |-> o.practicals, assignments |-> o.assignments,
      lastBackup |-> IsoString(0)] :
        sj \in StoredSubjects, ns \in InjectiveSeqs(StoredNotes, MaxStoredNotes),
        o \in StoredOthers}
    \cup {[subjects |-> sj, notes |-> ns, practiceTests |-> <<>>,
           practicals |-> <<PracticalM>>, lastBackup |-> IsoString(0)] :
        sj \in StoredSubjects, ns \in InjectiveSeqs(StoredNotes, MaxStoredNotes)}

\* An index entry whose title differs from the title of the record.
StaleEntry ==
    [title |-> TitleX, description |-> <<>>, originalFileName |-> FilePdf.originalname]

KeysOfList(list, recs) == {StartupKey(list, recs[i]) : i \in 1..Len(recs)}

\* The index documents stored beside a backup: none, an unparsable one, an
\* empty one, one holding the notes' keys and one holding every record's key.
StoredIndexesFor(agg) ==
    LET notesKeys == KeysOfList("notes", agg.notes)
        allKeys == notesKeys \cup KeysOfList("practiceTests", agg.practiceTests)
                       \cup KeysOfList("practicals", agg.practicals)
                       \cup (IF "assignments" \in DOMAIN agg
                             THEN KeysOfList("assignments", agg.assignments) ELSE {})
    IN  {AbsentDoc, CorruptDoc, Doc(EmptyMap), Doc([k \in notesKeys |-> StaleEntry]),
         Doc([k \in allKeys |-> StaleEntry])}

StoredDocuments ==
    {<<di, Doc(agg)>> : <<di, agg>> \in
        {<<di, agg>> \in (UNION {StoredIndexesFor(a) : a \in StoredBackups})
                             \X StoredBackups : di \in StoredIndexesFor(agg)}}
    \cup {<<di, db>> : di \in {AbsentDoc, CorruptDoc, Doc(EmptyMap)},
                       db \in {AbsentDoc, CorruptDoc}}

\* ------------------------------------------------------------------------
\* Specifications
\* ------------------------------------------------------------------------

\* A first start on an empty installation: neither document exists, and the
\* start-up block has left both stores empty.
InitFresh ==
    /\ files = {}
    /\ dirs = {}
    /\ fileMetadata = EmptyMap
    /\ fullBackupData = EmptyBackup
    /\ diskIndex = AbsentDoc
    /\ diskBackup = AbsentDoc
    /\ clock = 0
    /\ pc = "serving"
    /\ requests = 0
    /\ last = Step("init", NoResponse, "")
    /\ hist = <<>>
    /\ probe = NoProbe
    /\ disk = "ok"
    /\ inflight = {}
    /\ AuthIdle

RandsFor(di, db) == [1..Len(AllSubjects(LoadBackup(di, db))) -> Rands]

StartupStep ==
    \E now \in clock..MaxClock : \E rnds \in RandsFor(diskIndex, diskBackup) :
        Startup(now, rnds)

UploadStep ==
    /\ requests < MaxRequests
    /\ \E req \in UploadRequests : \E now \in clock..MaxClock :
           \E sameThrows \in (IF MovesOntoItself(req, now) THEN BOOLEAN ELSE {FALSE}) :
               Upload(req, now, sameThrows)

DeleteStep ==
    /\ requests < MaxRequests
    /\ \E q \in FileQueries : \E now \in clock..MaxClock : Delete(q, now)

LookupStep ==
    /\ requests < MaxRequests
    /\ \E q \in FileQueries : Lookup(q)

Next == UploadStep \/ DeleteStep \/ LookupStep

Spec == InitFresh /\ [][Next]_vars

\* The process is about to start over a pair of stored documents.
InitStored ==
    /\ files = {}
    /\ dirs = {}
    /\ fileMetadata = EmptyMap
    /\ fullBackupData = EmptyBackup
    /\ \E d \in StoredDocuments : diskIndex = d[1] /\ diskBackup = d[2]
    /\ clock = 0
    /\ pc = "boot"
    /\ requests = 0
    /\ last = Step("init", NoResponse, "")
    /\ hist = <<>>
    /\ probe = NoProbe
    /\ disk = "ok"
    /\ inflight = {}
    /\ AuthIdle

NextStored == StartupStep \/ Exit

SpecStored == InitStored /\ [][NextStored]_vars

\* ------------------------------------------------------------------------
\* Path derivation over a storage directory found at start
\* ------------------------------------------------------------------------

PaddedM == <<SP, "M">>
UnitPadded == <<"A", SP>>

\* The tuples handed to the path derivations of the handlers.
ResolveTuples ==
    [subject : {SubjM, PaddedM},
     type : {Notes, PracticeTests, Practicals, Assignments, TypeX},
     unit : {Undefined, UnitAB, UnitPadded, <<SP>>},
     filename : {StoredName(FilePdf.originalname, 0)}]

\* A file that an earlier installation left below a category directory that
\* is none of the four.
LegacyFile == <<SubjM, TypeX, FilePdf.originalname>>

\* A practice test stored while the subject directory was named in lower
\* case.
LowerCasedFile == <<ToLowerCase(SubjM), PracticeTests, FilePdf.originalname>>

\* The record of that practice test: subject as the upload's body gave it,
\* filePath where the file was stored.
LowerCasedRecord ==
    [StoredRecord(SubjM, PracticeTests, Undefined, 0, TitleT)
        EXCEPT !.storedFileName = FilePdf.originalname, !.filePath = LowerCasedFile]

InitResolve ==
    /\ files = {LegacyFile, LowerCasedFile}
    /\ dirs = Prefixes(SubSeq(LegacyFile, 1, 2)) \cup Prefixes(SubSeq(LowerCasedFile, 1, 2))
    /\ fileMetadata = EmptyMap
    /\ fullBackupData = [EmptyBackup EXCEPT !.practiceTests = <<LowerCasedRecord>>]
    /\ diskIndex = AbsentDoc
    /\ diskBackup = AbsentDoc
    /\ clock = 0
    /\ pc = "serving"
    /\ requests = 0
    /\ last = Step("init", NoResponse, "")
    /\ hist = <<>>
    /\ probe = NoProbe
    /\ disk = "ok"
    /\ inflight = {}
    /\ AuthIdle

Resolved(t, by, path) ==
    /\ probe' = [tuple |-> t, by |-> by, path |-> path]
    /\ inflight' = inflight
    /\ UNCHANGED authVars
    /\ UNCHANGED <<files, dirs, fileMetadata, fullBackupData, diskIndex, diskBackup,
                   clock, pc, requests, last, hist, disk>>

\* Where multer stores the file of an upload whose headers carry the tuple;
\* no path when the destination callback answers an error.
ResolveUploadDestination(t) ==
    LET d == UploadDestination([subject |-> t.subject, type |-> t.type, unit |-> t.unit])
    IN  Resolved(t, "upload-destination",
                 IF d.kind = "error" THEN <<>> ELSE d.path \o <<t.filename>>)

\* Where the upload handler moves a file out of the temp directory when the
\* body carries the tuple; the file stays where it is when no branch assigns
\* correctPath.
ResolveUploadMove(t) ==
    LET correctPath == UploadCorrectPath(Body(TitleT, t.subject, t.type, t.unit))
    IN  Resolved(t, "upload-move",
                 IF correctPath = Undefined THEN <<Temp, t.filename>>
                 ELSE correctPath \o <<t.filename>>)

ResolveLookup(t) ==
    Resolved(t, "lookup", LookupPath(t.subject, t.type, t.unit, t.filename))

ResolveDelete(t) ==
    Resolved(t, "delete", DeletePath(t.subject, t.type, t.unit, t.filename))

\* No path when no branch of verify-files assigns filePath.
ResolveVerify(t) ==
    LET filePath == VerifyPath(t.subject, t.type, t.unit, t.filename)
    IN  Resolved(t, "verify-files", IF filePath = Undefined THEN <<>> ELSE filePath)

ResolveStep ==
    \E t \in ResolveTuples :
        \/ ResolveUploadDestination(t)
        \/ ResolveUploadMove(t)
        \/ ResolveLookup(t)
        \/ ResolveDelete(t)
        \/ ResolveVerify(t)

NextResolve == ResolveStep \/ LookupStep \/ DeleteStep

SpecResolve == InitResolve /\ [][NextResolve]_vars

\* ------------------------------------------------------------------------
\* Subjects and files together
\* ------------------------------------------------------------------------

\* The category notes followed by a space, which type.trim() accepts.
NotesPadded == Notes \o <<SP>>

\* Uploads of notes with the parameters in the headers too, of notes with the
\* parameters in the body only, of a practice test whose x-subject header
\* names another subject than the body, and of notes whose type ends in a
\* space, with a unit and without.
SubjectUploads ==
    {[hdr |-> [subject |-> SubjM, type |-> Notes, unit |-> UnitAB],
      body |-> Body(TitleT, SubjM, Notes, UnitAB), file |-> FilePdf],
     [hdr |-> NoHeaders,
      body |-> Body(TitleT, SubjM, Notes, UnitA_B), file |-> FilePdf],
     [hdr |-> [subject |-> SubjB, type |-> PracticeTests, unit |-> Undefined],
      body |-> Body(TitleT, SubjM, PracticeTests, Undefined), file |-> FilePdf],
     [hdr |-> NoHeaders,
      body |-> Body(TitleT, SubjM, NotesPadded, UnitAB), file |-> FilePdf],
     [hdr |-> NoHeaders,
      body |-> Body(TitleT, SubjM, NotesPadded, Undefined), file |-> FilePdf]}

\* The units a subject is created with: none given, one, one given twice,
\* another one.
CreatedUnits == {Undefined, <<UnitAB>>, <<UnitAB, UnitAB>>, <<UnitA_B>>}

SubjectUploadStep ==
    /\ requests < MaxRequests
    /\ \E req \in SubjectUploads : \E now \in clock..MaxClock : Upload(req, now, FALSE)

CreateSubjectStep ==
    /\ requests < MaxRequests
    /\ \E units \in CreatedUnits : \E now \in clock..MaxClock :
           CreateSubject(SubjM, units, now)

AddUnitStep ==
    /\ requests < MaxRequests
    /\ \E unitName \in {UnitAB, UnitA_B} : \E now \in clock..MaxClock :
           AddUnit(SubjM, unitName, now)

DeleteSubjectStep ==
    /\ requests < MaxRequests
    /\ \E subjectName \in {SubjM, Temp} : \E now \in clock..MaxClock :
           DeleteSubject(subjectName, now)

\* The route parameter of a storage-sync request: none, or a subject.
SyncSubjects == {Undefined, SubjM}

StorageSyncStep ==
    /\ requests < MaxRequests
    /\ \E subject \in SyncSubjects : StorageSync(subject)

NextSubjects ==
    \/ SubjectUploadStep
    \/ DeleteStep
    \/ CreateSubjectStep
    \/ AddUnitStep
    \/ DeleteSubjectStep
    \/ StorageSyncStep

SpecSubjects == InitFresh /\ [][NextSubjects]_vars

\* The states of the disk under the two documents: both writable, the backup
\* document not writable, the index document not writable (saveMetadata then
\* does not reach the second write).
DiskStates == {"ok", "index-only", "failing"}

\* The disk stops taking writes of one document or of both between two
\* requests.
DiskChanges ==
    /\ disk = "ok"
    /\ \E d \in DiskStates \ {disk} : disk' = d
    /\ inflight' = inflight
    /\ UNCHANGED authVars
    /\ UNCHANGED <<files, dirs, fileMetadata, fullBackupData, diskIndex, diskBackup,
                   clock, pc, requests, last, hist, probe>>

NextPersist ==
    \/ SubjectUploadStep
    \/ DeleteStep
    \/ CreateSubjectStep
    \/ DeleteSubjectStep
    \/ DiskChanges

SpecPersist == InitFresh /\ [][NextPersist]_vars

\* The process is going to be killed between the two writes of the next
\* saveMetadata.
Kill ==
    /\ pc = "serving"
    /\ disk = "ok"
    /\ requests < MaxRequests
    /\ disk' = "crash"
    /\ inflight' = inflight
    /\ UNCHANGED authVars
    /\ UNCHANGED <<files, dirs, fileMetadata, fullBackupData, diskIndex, diskBackup,
                   clock, pc, requests, last, hist, probe>>

NextCrash ==
    \/ SubjectUploadStep
    \/ DeleteStep
    \/ CreateSubjectStep
    \/ AddUnitStep
    \/ DeleteSubjectStep
    \/ Kill
    \/ StartupStep

SpecCrash == InitFresh /\ [][NextCrash]_vars

\* ------------------------------------------------------------------------
\* Listing of a storage directory found at start
\* ------------------------------------------------------------------------

\* File names found on disk: a stored name of three words, a name without
\* timestamp, a name with a second dot, a name without extension, and a name
\* whose digits are one short of a timestamp.
ListedNames ==
    {<<"i", "n", "t", "r", "o", "_", "t", "o", "_", "s", "e", "t", "s", "_", "1", "7", "0", "0", "0", "0", "0", "0", "0", "0", "1", "2", "3", ".", "p", "d", "f">>,
     <<"a", "_", "b", ".", "p", "d", "f">>,
     <<"a", ".", "b", "_", "1", "7", "0", "0", "0", "0", "0", "0", "0", "0", "0", "0", "0", ".", "p", "n", "g">>,
     <<"a", "_", "1", "7", "0", "0", "0", "0", "0", "0", "0", "0", "0", "0", "0">>,
     <<"a", "b", "_", "1", "7", "0", "0", "0", "0", "0", "0", "0", "0", "0", "0", ".", "p", "d", "f">>}

\* Titles of the index entry of a file: a title, a blank title, an empty
\* title.
ListedTitles == {TitleT, <<SP>>, <<>>}

\* The directory of a category below subject M.
CategoryDir(category) ==
    IF category = Notes THEN <<SubjM, Notes, UnitAB>> ELSE <<SubjM, category>>

\* One file in one category directory, with or without an index entry under
\* the key getSubjectFiles computes for it.
InitListing ==
    /\ \E category \in {Notes, PracticeTests, Practicals, Assignments} :
       \E filename \in ListedNames :
           /\ files = {CategoryDir(category) \o <<filename>>}
           /\ dirs = Prefixes(CategoryDir(category))
           /\ \E entries \in SUBSET ListedTitles :
                  /\ Cardinality(entries) <= 1
                  /\ fileMetadata =
                         [k \in {MetadataKey(SubjM, category,
                                             IF category = Notes THEN UnitAB ELSE <<>>,
                                             filename) : t \in entries} |->
                             [title |-> CHOOSE t \in entries : TRUE,
                              description |-> <<>>,
                              originalFileName |-> filename]]
    /\ fullBackupData = EmptyBackup
    /\ diskIndex = Doc(fileMetadata)
    /\ diskBackup = AbsentDoc
    /\ clock = 0
    /\ pc = "serving"
    /\ requests = 0
    /\ last = Step("init", NoResponse, "")
    /\ hist = <<>>
    /\ probe = NoProbe
    /\ disk = "ok"
    /\ inflight = {}
    /\ AuthIdle

NextListing == StorageSyncStep

SpecListing == InitListing /\ [][NextListing]_vars

\* ------------------------------------------------------------------------
\* Uploads in two stages, with deletions between them
\* ------------------------------------------------------------------------

\* The first stage of POST /api/upload: multer's fileFilter, destination and
\* filename run and the file is written, at time now; the handler has not
\* run yet.
UploadStore(req, now) ==
    LET file == req.file
        dest == UploadDestination(req.hdr)
        filename == StoredName(file.originalname, now)
        path0 == Append(dest.path, filename)
        stored == file # NoFile /\ FileAccepted(file) /\ dest.kind # "error"
    IN  /\ pc = "serving"
        /\ requests' = requests + 1
        /\ clock' = now
        /\ hist' = <<>>
        /\ IF stored
           THEN /\ files' = files \cup {path0}
                /\ dirs' = EnsureDir(dirs, dest.path)
                /\ inflight' = inflight \cup {[req |-> req, filename |-> filename,
                                               path |-> path0]}
                /\ last' = Step("upload-store", NoResponse, "stored")
           ELSE /\ last' = Step("upload-store", NoResponse, "store error")
                /\ UNCHANGED <<files, dirs, inflight>>
        /\ UNCHANGED <<fileMetadata, fullBackupData, diskIndex, diskBackup, pc, probe,
                       disk>>
        /\ UNCHANGED authVars

\* The second stage: the handler runs at time now on the stored upload u,
\* whose req.file.path is u.path.  moveSync throws when the file is no longer
\* there or the destination exists.
UploadHandle(u, now) ==
    LET body == u.req.body
        file == u.req.file
        reject == UploadRejection(body)
        inTemp == PathIncludes(u.path, Temp)
        correct == IF inTemp THEN UploadCorrectPath(body) ELSE Undefined
        newPath == IF correct = Undefined THEN u.path ELSE Append(correct, u.filename)
        dirs2 == IF correct = Undefined THEN dirs ELSE EnsureDir(dirs, correct)
        moveThrows == /\ correct # Undefined
                      /\ u.path \notin files \/ newPath \in files
        files2 == IF correct = Undefined THEN files
                  ELSE (files \ {u.path}) \cup {newPath}
        key == UploadKey(body, u.filename)
        rec == UploadRecord(body, file, u.filename, newPath, now)
        idx == MapSet(fileMetadata,
                      key,
                      [title |-> rec.title, description |-> rec.description,
                       originalFileName |-> file.originalname])
        agg1 == UpsertRecord(fullBackupData, Trim(body.type), rec)
        agg2 == [agg1 EXCEPT !.subjects = RegisterSubject(@, body, now)]
    IN  /\ pc = "serving"
        /\ u \in inflight
        /\ inflight' = inflight \ {u}
        /\ UNCHANGED authVars
        /\ clock' = now
        /\ hist' = <<>>
        /\ IF reject # 0
           THEN /\ last' = Step("upload", reject, "rejected")
                /\ UNCHANGED <<files, dirs, fileMetadata, fullBackupData, diskIndex,
                               diskBackup>>
           ELSE IF moveThrows
           THEN /\ last' = Step("upload", 500, "move failed")
                /\ dirs' = dirs2
                /\ UNCHANGED <<files, fileMetadata, fullBackupData, diskIndex,
                               diskBackup>>
           ELSE /\ last' = Step("upload", Responded(disk, 200), "handled")
                /\ files' = files2
                /\ dirs' = dirs2
                /\ fileMetadata' = idx
                /\ fullBackupData' = agg2
                /\ diskIndex' = WrittenIndex(idx)
                /\ diskBackup' = WrittenBackup(agg2, now)
        /\ UNCHANGED <<pc, requests, probe, disk>>

\* Uploads of a note with the parameters in the headers too, and of a
\* practice test with the parameters in the body only.
RaceUploads ==
    {[hdr |-> [subject |-> SubjM, type |-> Notes, unit |-> UnitAB],
      body |-> Body(TitleT, SubjM, Notes, UnitAB), file |-> FilePdf],
     [hdr |-> NoHeaders,
      body |-> Body(TitleT, SubjM, PracticeTests, Undefined), file |-> FilePdf]}

UploadStoreStep ==
    /\ requests < MaxRequests
    /\ \E req \in RaceUploads : \E now \in clock..MaxClock : UploadStore(req, now)

UploadHandleStep ==
    \E u \in inflight : \E now \in clock..MaxClock : UploadHandle(u, now)

NextRace ==
    \/ UploadStoreStep
    \/ UploadHandleStep
    \/ DeleteStep
    \/ DeleteSubjectStep

SpecRace == InitFresh /\ [][NextRace]_vars

\* ------------------------------------------------------------------------
\* Accounts: login, password reset and e-mail verification
\* ------------------------------------------------------------------------

MailA == <<"a", "@", "x">>
MailAUpper == <<"A", "@", "x">>
MailB == <<"b", "@", "x">>
MailC == <<"c", "@", "x">>

PwOld == <<"o", "l", "d", "p", "w", "1">>
Pw5 == <<"n", "e", "w", "p", "w">>
Pw6 == <<"n", "e", "w", "p", "w", "1">>

\* A request that carries no token.
NoToken == [key |-> "none"]

\* jwt.sign(payload, JWT_SECRET, {expiresIn})
SignToken(email, type) ==
    [email |-> email, type |-> type, key |-> "secret", expired |-> FALSE]

\* jwt.verify(token, JWT_SECRET) returns the payload; otherwise it throws.
JwtVerifies(token) == token # NoToken /\ token.key = "secret" /\ ~token.expired

\* The tokens a request may carry: signed by this server or by somebody
\* else, in time or expired, for either purpose.
Tokens ==
    {NoToken} \cup
    {t \in [email : {MailAUpper, MailC, Undefined},
            type : {"verify", "reset"}, key : {"secret", "other"},
            expired : BOOLEAN] : t.key = "other" => ~t.expired}

\* What the identity provider and the mailer do during one request: whether
\* the provider can be reached, whether listing users answers 2xx, whether
\* the list comes as an array or as {users: [...]}, whether the list is
\* filtered by the email query parameter, whether an update and a credential
\* exchange are accepted, whether the mailer sends, and whether the
\* environment of the server names the provider.
Nets ==
    [reach : BOOLEAN, listOk : BOOLEAN, shape : {"array", "object"},
     filters : BOOLEAN, updateOk : BOOLEAN, exchangeOk : BOOLEAN, mailOk : BOOLEAN,
     configured : BOOLEAN]

\* Everything works, the list comes as {users: [...]} and is filtered.
NetFine ==
    [reach |-> TRUE, listOk |-> TRUE, shape |-> "object", filters |-> TRUE,
     updateOk |-> TRUE, exchangeOk |-> TRUE, mailOk |-> TRUE, configured |-> TRUE]

\* The behaviours that differ from NetFine in what a handler reads, with at
\* most one failure: a handler returns at the first failure it meets.
NetsFor(reads) ==
    {n \in Nets :
        /\ \A f \in DOMAIN n : f \notin reads => n[f] = NetFine[f]
        /\ Cardinality({f \in DOMAIN n \ {"shape", "filters"} : ~n[f]}) <= 1}

\* usersList.find(u => String(u.email).toLowerCase() === email): the position
\* of the first match, 0 when there is none.
FindUser(list, email) ==
    LET hits == {i \in 1..Len(list) : ToLowerCase(list[i].email) = email}
    IN  IF hits = {} THEN 0 ELSE CHOOSE i \in hits : \A j \in hits : i <= j

Answer(op, handler, status, success, tokens, checks, calls) ==
    [op |-> op, handler |-> handler, status |-> status, success |-> success,
     tokens |-> tokens, checks |-> checks, calls |-> calls]

Outcome(answer, us, ms) == [reply |-> answer, users |-> us, mails |-> ms]

\* A login that exchanges the credentials of any user it finds.
LoginOutcomeUnchecked(body, net) ==
    LET email == body.email
        password == body.password
        found == FindUser(users, ToLowerCase(email))
        matches == \E i \in 1..Len(users) :
                       /\ users[i].email = ToLowerCase(email)
                       /\ users[i].password = password
        fail(status, checks, calls) ==
            Outcome(Answer("login", "login", status, FALSE, FALSE, checks, calls),
                    users, mails)
    IN  IF ~Truthy(email) \/ ~Truthy(password) THEN fail(400, {}, <<>>)
        ELSE IF ~net.reach THEN fail(500, {}, <<>>)
        ELSE IF ~net.listOk THEN fail(500, {}, <<"list">>)
        ELSE IF found = 0 THEN fail(400, {}, <<"list">>)
        ELSE IF ~net.configured THEN fail(500, {"user"}, <<"list">>)
        ELSE IF ~(net.exchangeOk /\ matches)
             THEN fail(400, {"user"}, <<"list", "exchange">>)
        ELSE Outcome(Answer("login", "login", 200, TRUE, TRUE, {"user", "exchanged"},
                            <<"list", "exchange">>),
                     users, mails)

\* POST /api/login
LoginOutcome(body, net) ==
    LET email == body.email
        password == body.password
        found == FindUser(users, ToLowerCase(email))
        matches == \E i \in 1..Len(users) :
                       /\ users[i].email = ToLowerCase(email)
                       /\ users[i].password = password
        fail(status, checks, calls) ==
            Outcome(Answer("login", "login", status, FALSE, FALSE, checks, calls),
                    users, mails)
    IN  IF ~Truthy(email) \/ ~Truthy(password) THEN fail(400, {}, <<>>)
        ELSE IF ~net.reach THEN fail(500, {}, <<>>)
        ELSE IF ~net.listOk THEN fail(500, {}, <<"list">>)
        ELSE IF found = 0 THEN fail(400, {}, <<"list">>)
        ELSE IF ~users[found].confirmed THEN fail(403, {"user"}, <<"list">>)
        ELSE IF ~net.configured THEN fail(500, {"user", "confirmed"}, <<"list">>)
        ELSE IF ~(net.exchangeOk /\ matches)
             THEN fail(400, {"user", "confirmed"}, <<"list", "exchange">>)
        ELSE Outcome(Answer("login", "login", 200, TRUE, TRUE,
                            {"user", "confirmed", "exchanged"},
                            <<"list", "exchange">>),
                     users, mails)

\* mailer.sendMail({to: email, ...}) throws when the mailer fails and when
\* there is no recipient.
Sends(email, net) == net.mailOk /\ Truthy(email)

\* POST /api/send-welcome and POST /api/forgot-password: a signed link is
\* mailed to the address of the body.
LinkOutcome(op, type, email, net) ==
    IF Sends(email, net)
    THEN Outcome(Answer(op, op, 200, TRUE, FALSE, {}, <<"mail">>), users,
                 mails \cup {[to |-> email, kind |-> type,
                              token |-> SignToken(email, type)]})
    ELSE Outcome(Answer(op, op, 500, FALSE, FALSE, {}, <<>>), users, mails)

\* The users the provider lists for GET /admin/users?email=<email>.
UsersListed(email, net) ==
    IF net.filters THEN SelectSeq(users, LAMBDA u : u.email = email) ELSE users

\* A reset that accepts a token of any purpose.
ResetOutcomeAnyPurpose(body, net) ==
    LET token == body.token
        listed == UsersListed(token.email, net)
        user == IF net.shape = "array" /\ Len(listed) > 0 THEN listed[1].id ELSE 0
        changed == [users EXCEPT ![user].password = body.password]
        ans(status, success, checks, calls) ==
            Answer("reset", "reset-password", status, success, FALSE, checks, calls)
    IN  IF ~JwtVerifies(token) THEN Outcome(ans(400, FALSE, {}, <<>>), users, mails)
        ELSE IF body.validateOnly
             THEN Outcome(ans(200, TRUE, {"token", "purpose"}, <<>>), users, mails)
        ELSE IF ~Truthy(body.password) \/ Len(body.password) < 6
             THEN Outcome(ans(400, FALSE, {"token", "purpose"}, <<>>), users, mails)
        ELSE IF ~net.configured
             THEN Outcome(ans(500, FALSE, {"token", "purpose"}, <<>>), users, mails)
        ELSE IF ~net.reach
             THEN Outcome(ans(400, FALSE, {"token", "purpose"}, <<>>), users, mails)
        ELSE IF user = 0
             THEN Outcome(ans(404, FALSE, {"token", "purpose"}, <<"list">>), users,
                          mails)
        ELSE IF ~net.updateOk
             THEN Outcome(ans(500, FALSE, {"token", "purpose", "user"},
                              <<"list", "update">>), users, mails)
        ELSE IF ~Sends(token.email, net)
             THEN Outcome(ans(400, FALSE, {"token", "purpose", "user", "accepted"},
                              <<"list", "update">>), changed, mails)
        ELSE Outcome(ans(200, TRUE, {"token", "purpose", "user", "accepted"},
                         <<"list", "update", "mail">>),
                     changed,
                     mails \cup {[to |-> token.email, kind |-> "changed",
                                  token |-> NoToken]})

\* POST /api/reset-password
ResetOutcome(body, net) ==
    LET token == body.token
        listed == UsersListed(token.email, net)
        user == IF net.shape = "array" /\ Len(listed) > 0 THEN listed[1].id ELSE 0
        changed == [users EXCEPT ![user].password = body.password]
        ans(status, success, checks, calls) ==
            Answer("reset", "reset-password", status, success, FALSE, checks, calls)
    IN  IF ~JwtVerifies(token) THEN Outcome(ans(400, FALSE, {}, <<>>), users, mails)
        ELSE IF token.type # "reset"
             THEN Outcome(ans(400, FALSE, {"token"}, <<>>), users, mails)
        ELSE IF body.validateOnly
             THEN Outcome(ans(200, TRUE, {"token", "purpose"}, <<>>), users, mails)
        ELSE IF ~Truthy(body.password) \/ Len(body.password) < 6
             THEN Outcome(ans(400, FALSE, {"token", "purpose"}, <<>>), users, mails)
        ELSE IF ~net.configured
             THEN Outcome(ans(500, FALSE, {"token", "purpose"}, <<>>), users, mails)
        ELSE IF ~net.reach
             THEN Outcome(ans(400, FALSE, {"token", "purpose"}, <<>>), users, mails)
        ELSE IF user = 0
             THEN Outcome(ans(404, FALSE, {"token", "purpose"}, <<"list">>), users,
                          mails)
        ELSE IF ~net.updateOk
             THEN Outcome(ans(500, FALSE, {"token", "purpose", "user"},
                              <<"list", "update">>), users, mails)
        ELSE IF ~Sends(token.email, net)
             THEN Outcome(ans(400, FALSE, {"token", "purpose", "user", "accepted"},
                              <<"list", "update">>), changed, mails)
        ELSE Outcome(ans(200, TRUE, {"token", "purpose", "user", "accepted"},
                         <<"list", "update", "mail">>),
                     changed,
                     mails \cup {[to |-> token.email, kind |-> "changed",
                                  token |-> NoToken]})

\* The routes of account verification, in the order of their registration.
\* "forward" rewrites req.url to /verify-account and hands the request to
\* the application again.
VerifyRoutes ==
    <<[method |-> "GET", path |-> "/verify-account", handler |-> "get-verify-first"],
      [method |-> "POST", path |-> "/api/verify-account", handler |-> "forward"],
      [method |-> "POST", path |-> "/verify-account", handler |-> "post-verify-first"],
      [method |-> "POST", path |-> "/api/verify-account",
       handler |-> "verifyAccountHandler"],
      [method |-> "POST", path |-> "/verify-account",
       handler |-> "verifyAccountHandler"],
      [method |-> "GET", path |-> "/api/verify-account",
       handler |-> "verifyAccountHandler"],
      [method |-> "GET", path |-> "/verify-account", handler |-> "get-verify-last"]>>

\* The first registered route that matches answers the request.
FirstMatch(routes, method, path) ==
    LET hits == {i \in 1..Len(routes) :
                     routes[i].method = method /\ routes[i].path = path}
    IN  routes[CHOOSE i \in hits : \A j \in hits : i <= j].handler

Dispatch(routes, method, path) ==
    IF FirstMatch(routes, method, path) = "forward"
    THEN FirstMatch(routes, method, "/verify-account")
    ELSE FirstMatch(routes, method, path)

\* [users EXCEPT email_confirmed_at, confirmed_at of user i set]
Confirmed(us, i) == [us EXCEPT ![i].confirmed = TRUE]

\* The first GET /verify-account
GetVerifyFirst(token) ==
    IF token = NoToken
    THEN Outcome(Answer("verify", "get-verify-first", 400, FALSE, FALSE, {}, <<>>),
                 users, mails)
    ELSE Outcome(Answer("verify", "get-verify-first", 200, TRUE, FALSE, {}, <<>>),
                 users, mails)

\* The first POST /verify-account
PostVerifyFirst(token, net) ==
    LET found == FindUser(users, ToLowerCase(token.email))
        ans(status, success, checks, calls) ==
            Answer("verify", "post-verify-first", status, success, FALSE, checks,
                   calls)
    IN  IF token = NoToken THEN Outcome(ans(400, FALSE, {}, <<>>), users, mails)
        ELSE IF ~JwtVerifies(token) THEN Outcome(ans(400, FALSE, {}, <<>>), users, mails)
        ELSE IF token.type # "verify"
             THEN Outcome(ans(400, FALSE, {"token"}, <<>>), users, mails)
        ELSE IF token.email = Undefined \/ ~net.reach
             THEN Outcome(ans(400, FALSE, {"token", "purpose"}, <<>>), users, mails)
        ELSE IF ~net.listOk \/ net.shape = "array"
             THEN Outcome(ans(400, FALSE, {"token", "purpose"}, <<"list">>), users,
                          mails)
        ELSE IF found = 0
             THEN Outcome(ans(400, FALSE, {"token", "purpose"}, <<"list">>), users,
                          mails)
        ELSE IF ~net.updateOk
             THEN Outcome(ans(200, TRUE, {"token", "purpose", "user"},
                              <<"list", "update">>), users, mails)
        ELSE Outcome(ans(200, TRUE, {"token", "purpose", "user", "accepted"},
                         <<"list", "update">>), Confirmed(users, found), mails)

\* verifyAccountHandler
VerifyAccountHandler(token, net) ==
    LET found == FindUser(users, ToLowerCase(token.email))
        ans(status, success, checks, calls) ==
            Answer("verify", "verifyAccountHandler", status, success, FALSE, checks,
                   calls)
    IN  IF token = NoToken THEN Outcome(ans(400, FALSE, {}, <<>>), users, mails)
        ELSE IF ~JwtVerifies(token) THEN Outcome(ans(400, FALSE, {}, <<>>), users, mails)
        ELSE IF token.type # "verify" \/ ~Truthy(token.email)
             THEN Outcome(ans(400, FALSE, {"token"}, <<>>), users, mails)
        ELSE IF ~net.configured \/ ~net.reach
             THEN Outcome(ans(500, FALSE, {"token", "purpose"}, <<>>), users, mails)
        ELSE IF ~net.listOk
             THEN Outcome(ans(500, FALSE, {"token", "purpose"}, <<"list">>), users,
                          mails)
        ELSE IF found = 0
             THEN Outcome(ans(404, FALSE, {"token", "purpose"}, <<"list">>), users,
                          mails)
        ELSE IF ~net.updateOk
             THEN Outcome(ans(500, FALSE, {"token", "purpose", "user"},
                              <<"list", "update">>), users, mails)
        ELSE Outcome(ans(200, TRUE, {"token", "purpose", "user", "accepted"},
                         <<"list", "update">>), Confirmed(users, found), mails)

\* A verification request as the router of VerifyRoutes handles it.
VerifyOutcome(routes, req, net) ==
    LET handler == Dispatch(routes, req.method, req.path)
    IN  CASE handler = "get-verify-first" -> GetVerifyFirst(req.token)
          [] handler = "post-verify-first" -> PostVerifyFirst(req.token, net)
          [] handler = "verifyAccountHandler" -> VerifyAccountHandler(req.token, net)
          [] OTHER -> IF req.token # NoToken
                      THEN VerifyAccountHandler(req.token, net)
                      ELSE Outcome(Answer("verify", "get-verify-last", 200, FALSE,
                                          FALSE, {}, <<>>), users, mails)

\* One account request is answered.
Account(outcome) ==
    /\ reply' = outcome.reply
    /\ users' = outcome.users
    /\ mails' = outcome.mails
    /\ UNCHANGED storeVars

LoginBodies ==
    [email : {Undefined, MailA, MailAUpper, MailB, MailC},
     password : {Undefined, PwOld, Pw6}]

LoginNets == NetsFor({"reach", "listOk", "configured", "exchangeOk"})

LoginStep ==
    /\ pc = "serving"
    /\ \E net \in LoginNets : \E body \in LoginBodies :
           Account(LoginOutcome(body, net))

MailNets == NetsFor({"mailOk"})

SendWelcomeStep ==
    /\ pc = "serving"
    /\ \E net \in MailNets :
           Account(LinkOutcome("send-welcome", "verify", MailA, net))

ForgotPasswordStep ==
    /\ pc = "serving"
    /\ \E net \in MailNets :
           Account(LinkOutcome("forgot-password", "reset", MailA, net))

ResetBodies ==
    [token : Tokens, password : {Undefined, Pw5, Pw6}, validateOnly : BOOLEAN]

ResetNets ==
    NetsFor({"configured", "reach", "shape", "filters", "updateOk", "mailOk"})

ResetPasswordStep ==
    /\ pc = "serving"
    /\ \E net \in ResetNets : \E body \in ResetBodies :
           Account(ResetOutcome(body, net))

VerifyRequests ==
    [method : {"GET", "POST"}, path : {"/api/verify-account", "/verify-account"},
     token : Tokens]

VerifyNets == NetsFor({"configured", "reach", "listOk", "shape", "updateOk"})

VerifyAccountStep ==
    /\ pc = "serving"
    /\ \E net \in VerifyNets : \E req \in VerifyRequests :
           Account(VerifyOutcome(VerifyRoutes, req, net))

\* Two users at the identity provider; the first may not have confirmed the
\* address yet.
InitAuth ==
    /\ files = {}
    /\ dirs = {}
    /\ fileMetadata = EmptyMap
    /\ fullBackupData = EmptyBackup
    /\ diskIndex = AbsentDoc
    /\ diskBackup = AbsentDoc
    /\ clock = 0
    /\ pc = "serving"
    /\ requests = 0
    /\ last = Step("init", NoResponse, "")
    /\ hist = <<>>
    /\ probe = NoProbe
    /\ disk = "ok"
    /\ inflight = {}
    /\ \E c \in BOOLEAN :
           users = <<[id |-> 1, email |-> MailA, confirmed |-> c, password |-> PwOld],
                     [id |-> 2, email |-> MailB, confirmed |-> TRUE,
                      password |-> PwOld]>>
    /\ mails = {}
    /\ reply = [op |-> "none"]

NextAuth ==
    \/ LoginStep
    \/ SendWelcomeStep
    \/ ForgotPasswordStep
    \/ ResetPasswordStep
    \/ VerifyAccountStep

SpecAuth == InitAuth /\ [][NextAuth]_vars

\* ------------------------------------------------------------------------
\* Properties
\* ------------------------------------------------------------------------

Lists == {"notes", "practiceTests", "practicals", "assignments"}

\* The physical identity of a record of a list.
SameIdentity(list, r1, r2) ==
    /\ r1.storedFileName = r2.storedFileName
    /\ r1.subject = r2.subject
    /\ list = "notes" => r1.unit = r2.unit

UniqueIdentities(agg) ==
    \A list \in Lists : \A i, j \in 1..Len(agg[list]) :
        SameIdentity(list, agg[list][i], agg[list][j]) => i = j

\* C1: after any sequence of uploads and file deletions from empty stores,
\* every category list holds at most one record per physical identity
\* (storedFileName, subject, and unit for notes); and a successful upload
\* into a list leaves exactly one record of the uploaded identity there, the
\* last one, holding the fields of that upload.
C1_UpsertByIdentity ==
    [][/\ UniqueIdentities(fullBackupData')
       /\ \A req \in UploadRequests : \A now \in 0..MaxClock :
              LET list == ListOfType(Trim(req.body.type))
                  name == StoredName(req.file.originalname, now)
                  recs == fullBackupData'[list]
                  mine == {i \in 1..Len(recs) :
                              /\ recs[i].storedFileName = name
                              /\ recs[i].subject = Trim(req.body.subject)
                              /\ list = "notes" =>
                                     recs[i].unit = Trim(OrEmpty(req.body.unit))}
              IN  (/\ last'.op = "upload" /\ last'.status = 200 /\ list # ""
                   /\ Upload(req, now, FALSE))
                  => /\ mine = {Len(recs)}
                     /\ recs[Len(recs)].title = Trim(req.body.title)
                     /\ recs[Len(recs)].fileName = req.file.originalname
                     /\ recs[Len(recs)].id = NowDigits(now)]_vars

\* C1 witness: an upload has replaced the record of its own identity.
C1_Witness ==
    /\ last.op = "upload"
    /\ last.note = "replaced"
    /\ \E list \in Lists : Len(fullBackupData[list]) = 1

\* The key of a stored file as the data model defines it: the unit segment is
\* empty for every category but notes.
ModelKey(q) ==
    MetadataKey(q.subject, q.type, IF q.type = Notes THEN OrEmpty(q.unit) ELSE <<>>,
                q.filename)

HasRecord(agg, q) ==
    LET list == ListOfType(q.type)
    IN  /\ list # ""
        /\ \E i \in 1..Len(agg[list]) :
               /\ agg[list][i].storedFileName = q.filename
               /\ agg[list][i].subject = q.subject
               /\ list = "notes" => agg[list][i].unit = OrEmpty(q.unit)

\* C2 (as claimed): a successful delete for (subject, category, unit,
\* filename) leaves no index entry under that file's key and no record of it
\* in the category list, and a lookup of the same tuple then answers 404.
C2_DeleteThenNotFound ==
    [][\A q \in FileQueries : \A now \in 0..MaxClock :
           (Delete(q, now) /\ last'.status = 200)
           => /\ ~MapHas(fileMetadata', ModelKey(q))
              /\ ~HasRecord(fullBackupData', q)
              /\ LookupStatus(files', dirs', q) = 404]_vars

\* C8 (as claimed): an upload, lookup or delete for category notes with an
\* empty or absent unit fails with MissingUnit and neither derives a path nor
\* touches a file.  Stated here in its weakest reading: the request is not
\* answered with success, it removes nothing, and it stores nothing outside
\* the directory of unparsed uploads.
C8_NotesWithoutUnitFails ==
    [][/\ \A q \in FileQueries : \A now \in 0..MaxClock :
              ((Delete(q, now) \/ Lookup(q)) /\ q.type = Notes /\ ~Truthy(q.unit))
              => (last'.status # 200 /\ files' = files /\ dirs' = dirs)
       /\ \A req \in UploadRequests : \A now \in 0..MaxClock :
              (/\ Upload(req, now, FALSE)
               /\ req.body.type = Notes
               /\ ~Truthy(Trim(OrEmpty(req.body.unit))))
              => /\ last'.status # 200
                 /\ files \subseteq files'
                 /\ \A p \in files' \ files : p[1] = Temp]_vars

\* C9 (as claimed): an upload whose category is none of the four is answered
\* without success and leaves the index, the four lists and the subject list
\* unchanged, with or without the headers.
C9_InvalidCategoryRejected ==
    [][\A req \in UploadRequests : \A now \in 0..MaxClock :
           (Upload(req, now, FALSE) /\ ListOfType(Trim(OrEmpty(req.body.type))) = "")
           => /\ last'.status # 200
              /\ fileMetadata' = fileMetadata
              /\ fullBackupData' = fullBackupData]_vars

\* A start-up step: the process goes from not started to serving.
IsStartup == pc = "boot" /\ pc' = "serving"

C4_DocumentsIdentical ==
    \A i \in 1..(Len(hist) - 1) :
        /\ hist[i + 1].diskIndex = hist[i].diskIndex
        /\ hist[i + 1].diskBackup = hist[i].diskBackup

\* The key of a record of a list: subject, category, the unit for notes and
\* nothing for the other categories, and the stored file name.
RecordKey(list, rec) ==
    LET category == CASE list = "notes" -> Notes
                      [] list = "practiceTests" -> PracticeTests
                      [] list = "practicals" -> Practicals
                      [] OTHER -> Assignments
        unit == IF list = "notes" THEN rec.unit ELSE <<>>
    IN  rec.subject \o Dash \o category \o Dash \o unit \o Dash \o rec.storedFileName

\* C5: after start-up every record of the four lists has an index entry
\* under its key; an entry that was missing is made of the record's title,
\* description and original file name, and every entry of the loaded index
\* is left as it was.
C5_IndexCoversRecords ==
    [][IsStartup =>
        LET loaded == LoadIndex(diskIndex, diskBackup)
        IN  /\ \A k \in DOMAIN loaded :
                   MapHas(fileMetadata', k) /\ fileMetadata'[k] = loaded[k]
            /\ \A list \in Lists : \A i \in 1..Len(fullBackupData'[list]) :
                   LET rec == fullBackupData'[list][i]
                       k == RecordKey(list, rec)
                   IN  /\ MapHas(fileMetadata', k)
                       /\ ~MapHas(loaded, k) =>
                              /\ fileMetadata'[k].title = rec.title
                              /\ fileMetadata'[k].description = rec.description
                              /\ fileMetadata'[k].originalFileName = rec.fileName]_vars

\* A start-up has kept an entry of the loaded index, whose title is not the
\* record's, and has synthesized another entry from its record.
C5_Witness ==
    /\ last.op = "startup"
    /\ \E k1, k2 \in DOMAIN fileMetadata :
           /\ fileMetadata[k1] = StaleEntry
           /\ fileMetadata[k2].title = TitleT

\* The values of a sequence.
Range(sq) == {sq[i] : i \in 1..Len(sq)}

\* The position at which a value first occurs in a sequence.
FirstAt(sq, v) == CHOOSE i \in 1..Len(sq) : sq[i] = v /\ \A j \in 1..(i - 1) : sq[j] # v

\* C6: when the loaded aggregate has no subject and some record, the
\* start-up block rebuilds exactly one subject for each subject name found
\* in the four lists, and the units of a subject are the units of its notes
\* records, each once, in the order in which they first occur.
C6_SubjectsReconstructed ==
    [][IsStartup =>
        LET loaded == LoadBackup(diskIndex, diskBackup)
            names == UNION {Range(FieldSeq(loaded[list], "subject")) : list \in Lists}
            subs == fullBackupData'.subjects
        IN  (Len(loaded.subjects) = 0 /\ names # {}) =>
                /\ Range(FieldSeq(subs, "name")) = names
                /\ Len(subs) = Cardinality(names)
                /\ \A i \in 1..Len(subs) :
                       LET mine == FieldSeq(SelectSeq(loaded.notes,
                                       LAMBDA n : n.subject = subs[i].name), "unit")
                           units == subs[i].units
                       IN  /\ Range(units) = Range(mine)
                           /\ Len(units) = Cardinality(Range(mine))
                           /\ \A a, b \in 1..Len(units) :
                                  a < b => FirstAt(mine, units[a]) < FirstAt(mine, units[b])]_vars

\* A start-up has rebuilt two subjects, one of them with two units.
C6_Witness ==
    /\ last.op = "startup"
    /\ last.note = "rebuilt"
    /\ Len(fullBackupData.subjects) = 2
    /\ \E i \in 1..Len(fullBackupData.subjects) :
           Len(fullBackupData.subjects[i].units) = 2

KnownCategories == {Notes, PracticeTests, Practicals, Assignments}

\* The canonical path of a tuple.
Canonical(subject, type, unit, filename) ==
    IF type = Notes THEN <<subject, Notes, unit, filename>>
    ELSE <<subject, type, filename>>

\* A tuple of category notes with a unit, or of one of the other three
\* categories.
ValidTuple(subject, type, unit) ==
    \/ type = Notes /\ Truthy(unit)
    \/ type \in {PracticeTests, Practicals, Assignments}

C10_UnknownCategoryFails ==
    [][\A q \in FileQueries :
           (q.type \notin KnownCategories /\ ~Truthy(q.unit)) =>
               /\ Lookup(q) => last'.status # 200
               /\ \A now \in 0..MaxClock :
                      Delete(q, now) =>
                          last'.status # 200 /\ files' = files /\ dirs' = dirs]_vars

\* C11: when the canonical path does not exist, lookup and delete go through
\* the same fallback candidates in the same order, so that the file a lookup
\* serves for a tuple is the file a delete removes for that tuple, and a
\* delete answers NotFound only where a lookup does.
C11_SameFallbacks ==
    [][\A q \in FileQueries : \A now \in 0..MaxClock :
           (last'.op = "delete" /\ Delete(q, now)) =>
               /\ LookupStatus(files, dirs, q) = 200 =>
                      /\ last'.status = 200
                      /\ LookupServed(files, dirs, q) \notin files'
               /\ LookupStatus(files, dirs, q) = 404 => last'.status = 404]_vars

\* The record an upload of the body leaves in the aggregate: the last one of
\* the list of the body's category.
UploadedRecord(agg, body) ==
    LET list == agg[ListOfType(Trim(body.type))] IN list[Len(list)]

\* C12: after every successful upload, the filePath of the uploaded record is
\* the canonical path of the record's own subject, category, unit and stored
\* file name, and the file is at that path; also when the x- headers differ
\* from the body and when the file was first stored under temp.
C12_FilePathCanonical ==
    [][\A req \in SubjectUploads : \A now \in 0..MaxClock :
           (last'.op = "upload" /\ last'.status = 200 /\ Upload(req, now, FALSE)) =>
               LET rec == UploadedRecord(fullBackupData', req.body)
               IN  /\ rec.filePath = Canonical(rec.subject, Trim(req.body.type),
                                               rec.unit, rec.storedFileName)
                   /\ rec.filePath \in files']_vars

\* The records of the aggregate whose filePath is the path.
RecordsAt(agg, path) ==
    {<<list, i>> \in Lists \X (1..2) : i <= Len(agg[list]) /\ agg[list][i].filePath = path}

\* C13: when the file of a record is found at a fallback path, the file is
\* relocated to the canonical path: after the lookup that found it, the file
\* is at the canonical path of the tuple, no longer at the alternate path, and
\* no record carries the alternate path.
C13_FoundFileRelocated ==
    [][\A q \in FileQueries :
           (last'.op = "lookup" /\ last'.note = "fallback" /\ Lookup(q)) =>
               /\ LookupPath(q.subject, q.type, q.unit, q.filename) \in files'
               /\ LookupServed(files, dirs, q) \notin files'
               /\ RecordsAt(fullBackupData', LookupServed(files, dirs, q)) = {}]_vars

\* The item getSubjectFiles lists for the file at a path below a category
\* directory.
ItemAt(idx, path) ==
    ListedItem(idx, path[1], path[2], IF Len(path) = 4 THEN path[3] ELSE Undefined,
               path[Len(path)])

\* C14: the key an upload writes to the index is subject, category, unit and
\* stored file name, with the unit empty for a category other than notes even
\* when the request supplies one; it is the key getSubjectFiles computes for
\* the stored file, so a file uploaded with a title is listed with that
\* title.
C14_UploadKeyListed ==
    [][\A req \in UploadRequests : \A now \in 0..MaxClock :
           (/\ last'.op = "upload"
            /\ last'.status = 200
            /\ Trim(req.body.type) \in KnownCategories
            /\ Upload(req, now, FALSE)) =>
               LET rec == UploadedRecord(fullBackupData', req.body)
               IN  /\ UploadKey(req.body, rec.storedFileName)
                          = MetadataKey(rec.subject, Trim(req.body.type),
                                        IF Trim(req.body.type) = Notes
                                        THEN rec.unit ELSE <<>>,
                                        rec.storedFileName)
                   /\ ItemAt(fileMetadata', rec.filePath).title = Trim(req.body.title)]_vars

\* The keys computed from the records of the four lists.
RecordKeys(agg) ==
    {RecordKey(list, agg[list][i]) : <<list, i>> \in {<<l, j>> \in Lists \X (1..MaxRequests) :
                                                        j <= Len(agg[l])}}

\* C15: after any sequence of upload, file-delete, subject-create, unit-add
\* and subject-delete requests from empty stores, the keys of the index are
\* the keys computed from the records of the four lists: no entry without a
\* record, no record without an entry.
C15_IndexMatchesRecords == DOMAIN fileMetadata = RecordKeys(fullBackupData)

\* C16: a subject's unit list only grows: across uploads, file deletions,
\* unit-add and subject-create requests, every subject of the list is still
\* in the list after the request, with every unit it had.
C16_UnitsOnlyGrow ==
    [][last'.op # "delete-subject" =>
          \A i \in 1..Len(fullBackupData.subjects) :
              LET j == IndexOfSubject(fullBackupData'.subjects,
                                      fullBackupData.subjects[i].name)
              IN  /\ j > 0
                  /\ \A k \in 1..Len(fullBackupData.subjects[i].units) :
                         SeqIncludes(fullBackupData'.subjects[j].units,
                                     fullBackupData.subjects[i].units[k])]_vars

\* C17: the units of every subject are pairwise distinct in every state
\* reached by subject-create, unit-add and upload requests.
C17_UnitsDistinct ==
    \A i \in 1..Len(fullBackupData.subjects) :
        LET units == fullBackupData.subjects[i].units
        IN  \A j, k \in 1..Len(units) : units[j] = units[k] => j = k

\* C18: a successful upload for a subject that is not in the subject list
\* appends exactly one subject, with the unit as its only unit when the
\* category is notes and with no unit otherwise; a successful notes upload
\* for a subject of the list appends the unit to that subject's units iff it
\* is not among them; every other subject and the order of the units stay as
\* they were.
C18_AutoRegistration ==
    [][\A req \in SubjectUploads : \A now \in 0..MaxClock :
           (last'.op = "upload" /\ last'.status = 200 /\ Upload(req, now, FALSE)) =>
               LET name == Trim(req.body.subject)
                   isNotes == Trim(req.body.type) = Notes
                   unit == Trim(OrEmpty(req.body.unit))
                   old == fullBackupData.subjects
                   new == fullBackupData'.subjects
                   i == IndexOfSubject(old, name)
               IN  IF i = 0
                   THEN /\ Len(new) = Len(old) + 1
                        /\ SubSeq(new, 1, Len(old)) = old
                        /\ new[Len(new)].name = name
                        /\ new[Len(new)].units = IF isNotes THEN <<unit>> ELSE <<>>
                   ELSE /\ Len(new) = Len(old)
                        /\ \A j \in 1..Len(old) : j # i => new[j] = old[j]
                        /\ new[i].name = name
                        /\ new[i].units = IF isNotes /\ ~SeqIncludes(old[i].units, unit)
                                          THEN Append(old[i].units, unit)
                                          ELSE old[i].units]_vars

\* The subjects of the aggregate a storage-sync request is about.
SyncedSubjects(agg, subject) ==
    {agg.subjects[i].name : i \in {i \in 1..Len(agg.subjects) :
        /\ ToLowerCase(agg.subjects[i].name) # Temp
        /\ Truthy(subject) => agg.subjects[i].name = subject}}

\* C19: storage-sync answers, for every subject of the aggregate, the view
\* built from the aggregate's records, without scanning its directory; the
\* directory scan decorated with the index is the view only of subjects on
\* disk that the aggregate does not have.
C19_AggregateAuthoritative ==
    [][\A subject \in SyncSubjects :
           (last'.op = "storage-sync" /\ StorageSync(subject)) =>
               LET st == StorageStructure(files, dirs, fileMetadata, fullBackupData, subject)
                   known == SyncedSubjects(fullBackupData, subject)
               IN  /\ \A name \in known :
                          name \in DOMAIN st /\ st[name] = BackupView(fullBackupData, name)
                   /\ \A name \in (DOMAIN st) \ known :
                          st[name] = GetSubjectFiles(files, dirs, fileMetadata,
                                                     <<name>>, name)]_vars

\* C20: when a write of saveMetadata fails, the failure is swallowed.  With
\* the disk not writable, an upload that reaches saveMetadata answers 200 and
\* leaves its entry in the index and its record in the list; a file delete
\* that removes its target answers 200 and the entry is gone from the index;
\* a subject create answers 200 and the subject is in the list with the
\* units given; a subject delete answers 200 and the subject is gone; and
\* the document whose write failed is as it was.
C20_PersistFailureSwallowed ==
    [][disk # "ok" =>
          /\ \A req \in SubjectUploads : \A now \in 0..MaxClock :
                 (/\ last'.op = "upload"
                  /\ last'.note \in {"added", "replaced"}
                  /\ Upload(req, now, FALSE)) =>
                     /\ last'.status = 200
                     /\ MapHas(fileMetadata',
                               UploadKey(req.body, StoredName(req.file.originalname, now)))
                     /\ UploadedRecord(fullBackupData', req.body).title
                            = Trim(req.body.title)
          /\ \A q \in FileQueries : \A now \in 0..MaxClock :
                 (/\ last'.op = "delete"
                  /\ DeleteTarget(files, dirs, q) # Undefined
                  /\ Delete(q, now)) =>
                     /\ last'.status = 200
                     /\ ~MapHas(fileMetadata', DeleteKey(q))
                     /\ DeleteTarget(files, dirs, q) \notin files'
          /\ \A units \in CreatedUnits : \A now \in 0..MaxClock :
                 (last'.op = "create-subject" /\ CreateSubject(SubjM, units, now)) =>
                     /\ last'.status = 200
                     /\ IndexOfSubject(fullBackupData'.subjects, SubjM) > 0
                     /\ fullBackupData'.subjects[
                            IndexOfSubject(fullBackupData'.subjects, SubjM)].units
                          = IF units = Undefined THEN <<>> ELSE units
          /\ \A now \in 0..MaxClock :
                 (last'.op = "delete-subject" /\ DeleteSubject(SubjM, now)) =>
                     /\ last'.status = 200
                     /\ IndexOfSubject(fullBackupData'.subjects, SubjM) = 0
          /\ last'.op \in {"upload", "delete", "create-subject", "delete-subject"} =>
                 /\ diskBackup' = diskBackup
                 /\ disk = "failing" => diskIndex' = diskIndex]_vars

\* An upload has been answered 200 while neither document could be written:
\* the index holds its entry and the index document is still absent.
C20_Witness ==
    /\ disk = "failing"
    /\ last.op = "upload"
    /\ last.status = 200
    /\ DOMAIN fileMetadata # {}
    /\ diskIndex = AbsentDoc
    /\ diskBackup = AbsentDoc

\* The records of the four lists whose file is not in the storage directory.
RecordsWithoutFile(agg, fs) ==
    {<<list, i>> \in Lists \X (1..MaxRequests) :
        i <= Len(agg[list]) /\ agg[list][i].filePath \notin fs}

\* C21: when the process died between the write of the index document and
\* the write of the backup document of a mutation, the next start leaves the
\* two stores consistent: the keys of the index are the keys computed from
\* the records, and no record, hence no entry, is that of a file the
\* interrupted mutation removed.
C21_CrashRepaired ==
    [][(IsStartup /\ last.op = "crash") =>
          /\ DOMAIN fileMetadata' = RecordKeys(fullBackupData')
          /\ RecordsWithoutFile(fullBackupData', files') = {}]_vars

\* C22: on load each document defaults to an empty structure on its own when
\* it is absent or corrupt, and a document that is present and valid is
\* loaded with its contents whatever the state of the other: after the start
\* the index holds every entry of a valid index document, and the four lists
\* are those of a valid backup document.
C22_DocumentsLoadIndependently ==
    [][IsStartup =>
          /\ diskIndex.state = "ok" =>
                 \A k \in DOMAIN diskIndex.val :
                     MapHas(fileMetadata', k) /\ fileMetadata'[k] = diskIndex.val[k]
          /\ diskBackup.state = "ok" =>
                 /\ fullBackupData'.notes = diskBackup.val.notes
                 /\ fullBackupData'.practiceTests = diskBackup.val.practiceTests
                 /\ fullBackupData'.practicals = diskBackup.val.practicals
                 /\ "assignments" \in DOMAIN diskBackup.val =>
                        fullBackupData'.assignments = diskBackup.val.assignments
          /\ diskIndex.state # "ok" /\ diskBackup.state # "ok" =>
                 /\ fileMetadata' = EmptyMap
                 /\ fullBackupData' = EmptyBackup]_vars

\* What a start would load from a document: its value, or the empty
\* structure when there is no document.
DocValue(d, empty) == IF d.state = "ok" THEN d.val ELSE empty

\* The documents hold the stores in memory, the lastBackup timestamp aside.
InSync(idx, agg, di, db) ==
    /\ DocValue(di, EmptyMap) = idx
    /\ [DocValue(db, EmptyBackup) EXCEPT !.lastBackup = agg.lastBackup] = agg

MutatingRequests ==
    {"upload", "delete", "create-subject", "add-unit", "delete-subject"}

\* C23: every request that changes the index, a list or the subject list has
\* written both documents when it responds, so the documents hold the stores
\* in memory (the lastBackup timestamp aside) whenever the process is
\* serving; and the index document is written first: a process that died
\* inside saveMetadata has left the index document written and the backup
\* document as it was.
C23_WritesBeforeResponding ==
    [][/\ (/\ last'.op \in MutatingRequests
           /\ fileMetadata' # fileMetadata \/ fullBackupData' # fullBackupData) =>
              /\ diskIndex' = Doc(fileMetadata')
              /\ diskBackup'.state = "ok"
              /\ last'.status = 200
       /\ pc' = "serving" =>
              InSync(fileMetadata', fullBackupData', diskIndex', diskBackup')
       /\ last'.op = "crash" =>
              /\ diskIndex'.state = "ok"
              /\ diskBackup' = diskBackup]_vars

\* A unit-add request has added a unit and both documents hold it.
C23_Witness ==
    /\ last.op = "add-unit"
    /\ last.note = "added"
    /\ diskIndex.state = "ok"
    /\ diskBackup.state = "ok"
    /\ diskBackup.val.subjects = fullBackupData.subjects
    /\ Len(fullBackupData.subjects[1].units) > 0

\* C24: every record of the notes list has a non-empty unit, whatever
\* whitespace the category or the unit of the accepted uploads carried.
C24_NotesHaveUnit ==
    \A i \in 1..Len(fullBackupData.notes) :
        /\ fullBackupData.notes[i].unit # Undefined
        /\ fullBackupData.notes[i].unit # <<>>

\* The title the title synthesis is to give each file name of the listing:
\* extension stripped, trailing underscore and 13-digit timestamp stripped,
\* underscores replaced by spaces, first letter of each word in upper case.
SynthesizedTitle(filename) ==
    CASE filename = <<"i", "n", "t", "r", "o", "_", "t", "o", "_", "s", "e", "t", "s", "_", "1", "7", "0", "0", "0", "0", "0", "0", "0", "0", "1", "2", "3", ".", "p", "d", "f">>
           -> <<"I", "n", "t", "r", "o", " ", "T", "o", " ", "S", "e", "t", "s">>
      [] filename = <<"a", "_", "b", ".", "p", "d", "f">>
           -> <<"A", " ", "B">>
      [] filename = <<"a", ".", "b", "_", "1", "7", "0", "0", "0", "0", "0", "0", "0", "0", "0", "0", "0", ".", "p", "n", "g">>
           -> <<"A", ".", "B">>
      [] filename = <<"a", "_", "1", "7", "0", "0", "0", "0", "0", "0", "0", "0", "0", "0", "0">>
           -> <<"A">>
      [] filename = <<"a", "b", "_", "1", "7", "0", "0", "0", "0", "0", "0", "0", "0", "0", "0", ".", "p", "d", "f">>
           -> <<"A", "b", " ", "1", "7", "0", "0", "0", "0", "0", "0", "0", "0", "0", "0">>

\* The items storage-sync lists for the file at a path.
ListedFor(st, path) ==
    IF path[1] \notin DOMAIN st THEN {}
    ELSE IF path[2] = Notes
    THEN IF path[3] \in DOMAIN st[path[1]].notes
         THEN {it \in st[path[1]].notes[path[3]] : it.filename = path[4]}
         ELSE {}
    ELSE {it \in st[path[1]].flat[path[2]] : it.filename = path[3]}

C26_RejectedUploadLeavesNothing ==
    [][(last'.op = "upload" /\ last'.status = 400) =>
          /\ fileMetadata' = fileMetadata
          /\ fullBackupData' = fullBackupData
          /\ files' = files]_vars

\* The subjects of the records of the four lists.
RecordSubjects(agg) ==
    {agg[list][i].subject : <<list, i>> \in {<<l, j>> \in Lists \X (1..MaxRequests) :
                                                j <= Len(agg[l])}}

\* C27: whatever the interleaving of the two stages of concurrent uploads
\* with subject deletions and file deletions, once every request has
\* completed every record refers to a file that is on disk, and every
\* subject that has a record is in the subject list.
C27_RecordsHaveFiles ==
    inflight = {} =>
        /\ RecordsWithoutFile(fullBackupData, files) = {}
        /\ \A subject \in RecordSubjects(fullBackupData) :
               IndexOfSubject(fullBackupData.subjects, subject) > 0

\* The users of the identity provider whose address is the given one,
\* whatever the case of its letters.
UsersWithEmail(email) ==
    {i \in 1..Len(users) : ToLowerCase(users[i].email) = ToLowerCase(email)}

Has(seq, x) == \E i \in 1..Len(seq) : seq[i] = x

\* C28: POST /api/login hands out tokens only when a user with the given
\* email (letters compared without case) exists at the identity provider,
\* that user is confirmed and the credential exchange succeeded; for an
\* unconfirmed user it answers 403 and never performs the exchange; and no
\* failure answer carries a token.
C28_LoginTokensOnlyWhenVerified ==
    \A body \in LoginBodies : \A net \in LoginNets :
        LET answer == LoginOutcome(body, net).reply
            found == UsersWithEmail(body.email)
            asked == Truthy(body.email) /\ Truthy(body.password)
        IN  /\ answer.tokens =>
                /\ asked
                /\ \E i \in found :
                       users[i].confirmed /\ users[i].password = body.password
                /\ net.exchangeOk
                /\ Has(answer.calls, "exchange")
                /\ answer.status = 200
            /\ (asked /\ found # {} /\ \A i \in found : ~users[i].confirmed) =>
                /\ ~Has(answer.calls, "exchange")
                /\ ~answer.tokens
                /\ (net.reach /\ net.listOk) => answer.status = 403
            /\ ~answer.success => ~answer.tokens

\* A login was answered with tokens after a verification link was mailed.
C28_Witness ==
    /\ reply.op = "login"
    /\ reply.tokens
    /\ reply.status = 200
    /\ \E m \in mails : m.kind = "verify"

\* C29: POST /api/reset-password changes a password only when the token
\* verifies under the secret, its purpose is "reset", validateOnly is not
\* set and the password has at least 6 characters; a token signed for
\* purpose "verify" never leads to a change; a validateOnly request changes
\* no password and sends no mail.
C29_ResetOnlyWithResetToken ==
    \A body \in ResetBodies : \A net \in ResetNets :
        LET outcome == ResetOutcome(body, net)
            changes == \/ outcome.users # users
                       \/ Has(outcome.reply.calls, "update")
        IN  /\ changes =>
                /\ JwtVerifies(body.token)
                /\ body.token.type = "reset"
                /\ ~body.validateOnly
                /\ Truthy(body.password)
                /\ Len(body.password) >= 6
            /\ (body.token # NoToken /\ body.token.type = "verify") => ~changes
            /\ body.validateOnly =>
                /\ ~changes
                /\ outcome.mails = mails
                /\ ~Has(outcome.reply.calls, "mail")

\* A reset with a token in time, signed here for purpose "reset", and a
\* password of six characters has changed the password of a user and the
\* notice was mailed.
C29_Witness ==
    /\ reply.op = "reset"
    /\ reply.status = 200
    /\ Has(reply.calls, "mail")
    /\ \E i \in 1..Len(users) : users[i].password = Pw6
    /\ \E m \in mails : m.kind = "changed"

\* The verification requests of the claim: the four routes, GET
\* /verify-account only with a token.
TokenVerifyRequests ==
    {req \in VerifyRequests :
        (req.method = "GET" /\ req.path = "/verify-account") => req.token # NoToken}

\* C30: every verification request is processed by verifyAccountHandler, and
\* is answered with success only after the token verified with purpose
\* "verify", the user was found and the identity provider accepted the
\* update of the confirmed timestamp.
C30_VerifiedByHandler ==
    \A req \in TokenVerifyRequests : \A net \in VerifyNets :
        LET answer == VerifyOutcome(VerifyRoutes, req, net).reply
        IN  /\ answer.handler = "verifyAccountHandler"
            /\ answer.success =>
                /\ JwtVerifies(req.token)
                /\ req.token.type = "verify"
                /\ UsersWithEmail(req.token.email) # {}
                /\ net.updateOk

====
